---- MODULE Spec2Model ----
(***************************************************************************)
(* Model of the query builder of jtlabsio/mongo: QueryBuilder.Filter       *)
(* (query.go) and the helpers it calls (detectComparisonOperator,          *)
(* detectNumericComparisonOperator, detectDateComparisonOperator,          *)
(* detectStringComparisonOperator, combine).                               *)
(*                                                                         *)
(* Strings are sequences of lexemes.  A lexeme is one character, except    *)
(* the keyword "null", the boolean words and the date literals, which      *)
(* stand for the run of characters they are written with (StrLen counts    *)
(* those characters).  No multi-character lexeme starts or ends with a     *)
(* character the code tests for, so slicing by matched prefix or suffix    *)
(* never cuts a lexeme.                                                    *)
(*                                                                         *)
(* BSON values are records [k |-> kind, v |-> payload].                    *)
(***************************************************************************)
EXTENDS Integers, Sequences, FiniteSets, TLC

VARIABLES
    qb,        \* the QueryBuilder: collection, fieldTypes, strictValidation
    qo,        \* qo.Filter of the call: field -> list of raw tokens
    o,         \* the variadic LogicalOperator argument (0 or 1 element)
    pc,        \* "new", "panic": NewQueryBuilder; "idle", "loop", "done": the Filter call
    oper,      \* local: the logical operator in use
    filter,    \* local: the running filter document
    pending,   \* fields of qo.Filter the range loop has not visited yet
    visited,   \* fields in the order the range loop visited them
    result,    \* returned bson.M (NilM when nil)
    err,       \* returned error (NoErr when nil)
    schemaIn,  \* the schema handed to NewQueryBuilder: its content and its encoding
    merge,     \* a combine call on its own: its arguments and its results
    fo,        \* a FindOptions call: its query options, and what it returned
    calls,     \* concurrent Filter calls on the builder: the locals of each goroutine
    update     \* an Update call on an UpdateBuilder: the builder, the arguments, what it returned

vars == <<qb, qo, o, pc, oper, filter, pending, visited, result, err, schemaIn, merge, fo, calls, update>>

(***************************************************************************)
(* Bounds of the model.                                                    *)
(***************************************************************************)
MaxNumTokLen == 3   \* lexemes of a single numeric/date token
MaxStrTokLen == 4   \* lexemes of a single string/array/object token
MaxTokens == 3      \* tokens of a multi-token field
MaxFields == 2      \* fields of a multi-field raw filter
MaxSchemaDepth == 2
MaxElems == 2        \* elements of an array handed to combine
MaxFindFields == 2   \* names of the projection and sort lists of a call together
MaxGoroutines == 2   \* goroutines that call Filter on one builder
MaxDocFields == 2    \* fields of a struct handed to Update

(***************************************************************************)
(* Strings.                                                                *)
(***************************************************************************)
RFC3339Z == "2020-01-01T12:00:00Z"
RFC3339Offset == "2020-01-01T14:00:00+02:00"
DateDash == "2021-02-16"
DateSlash == "2021/02/16"
\* a decimal numeral one above the largest int32, used as one lexeme
Big == "2147483648"
DateLexemes == {RFC3339Z, RFC3339Offset, DateDash, DateSlash}

LexLen(c) ==
    CASE c = "null" -> 4
      [] c = "true" -> 4
      [] c = "false" -> 5
      [] c = Big -> 10
      [] c = RFC3339Z -> 20
      [] c = RFC3339Offset -> 25
      [] c \in {DateDash, DateSlash} -> 10
      [] OTHER -> 1

RECURSIVE StrLen(_)
StrLen(s) == IF s = <<>> THEN 0 ELSE LexLen(Head(s)) + StrLen(Tail(s))

HasPrefix(s, p) == Len(s) >= Len(p) /\ SubSeq(s, 1, Len(p)) = p
HasSuffix(s, p) == Len(s) >= Len(p) /\ SubSeq(s, Len(s) - Len(p) + 1, Len(s)) = p
DropFirst(s, n) == SubSeq(s, n + 1, Len(s))
DropLast(s, n) == SubSeq(s, 1, Len(s) - n)

Digits == {"3", "5", Big}
\* the decimal digits of one lexeme of Digits
DigitVal(c) ==
    CASE c = "3" -> <<3>>
      [] c = "5" -> <<5>>
      [] c = Big -> <<2, 1, 4, 7, 4, 8, 3, 6, 4, 8>>
WordLexemes == Digits \cup {"v", "w", "null", "true", "false"} \cup DateLexemes

\* reWord = regexp `\w+` (part_012:16)
reWordMatch(s) == \E i \in 1..Len(s) : s[i] \in WordLexemes

\* reNull = regexp `null` (part_012:15): matches anywhere in the string
reNullMatch(s) == \E i \in 1..Len(s) : s[i] = "null"

(***************************************************************************)
(* BSON values.                                                            *)
(***************************************************************************)
BNil == [k |-> "nil", v |-> <<>>]
BStr(s) == [k |-> "string", v |-> s]
BBool(b) == [k |-> "bool", v |-> b]
BInt32(n) == [k |-> "int32", v |-> n]
BInt64(n) == [k |-> "int64", v |-> n]
BFloat32(f) == [k |-> "float32", v |-> f]
BFloat64(f) == [k |-> "float64", v |-> f]
BTime(t) == [k |-> "time", v |-> t]
BRegex(p, opts) == [k |-> "regex", v |-> [Pattern |-> p, Options |-> opts]]
BE(key, value) == [Key |-> key, Value |-> value]
BD(key, value) == [k |-> "D", v |-> <<BE(key, value)>>]
BA(a) == [k |-> "A", v |-> a]
BM(m) == [k |-> "M", v |-> m]
EmptyM == BM(<<>>)
NilM == [k |-> "nilM", v |-> <<>>]
One(key, value) == BM(key :> value)

NoErr == [k |-> "noerr", field |-> <<>>, collection |-> ""]
FieldError(field, collection) == [k |-> "error", field |-> field, collection |-> collection]

(***************************************************************************)
(* LogicalOperator (part_009).                                             *)
(***************************************************************************)
And == 0
Not == 1
Nor == 2
Or == 3

\* mutant of LogicalOperatorString: the keys of Nor and Or are exchanged
LogicalOperatorString_Swapped(lo) ==
    CASE lo = And -> <<"$and">>
      [] lo = Not -> <<"$not">>
      [] lo = Nor -> <<"$or">>
      [] lo = Or -> <<"$nor">>
      [] OTHER -> <<>>

LogicalOperatorString(lo) ==
    CASE lo = And -> <<"$and">>
      [] lo = Not -> <<"$not">>
      [] lo = Nor -> <<"$nor">>
      [] lo = Or -> <<"$or">>
      [] OTHER -> <<>>

(***************************************************************************)
(* strconv and time parsing, as far as the lexemes of the model reach.     *)
(***************************************************************************)
\* A parsed number is kept as its sign and its decimal digits, because an
\* int64 or a float does not fit the integers of the checker; the digits of
\* the numerals of the model have no leading zero.
RECURSIVE Expand(_)
\* the decimal digits of a string of Digits
Expand(s) == IF s = <<>> THEN <<>> ELSE DigitVal(Head(s)) \o Expand(Tail(s))

RECURSIVE DigitsValue(_, _)
\* the int32 with decimal digits d, negative when neg
DigitsValue(d, neg) ==
    IF d = <<>> THEN 0
    ELSE IF neg THEN DigitsValue(DropLast(d, 1), neg) * 10 - d[Len(d)]
    ELSE DigitsValue(DropLast(d, 1), neg) * 10 + d[Len(d)]

RECURSIVE LexLess(_, _)
\* d is before m in the order of the dictionary
LexLess(d, m) ==
    /\ m # <<>>
    /\ \/ d = <<>>
       \/ Head(d) < Head(m)
       \/ Head(d) = Head(m) /\ LexLess(Tail(d), Tail(m))
\* numeral d is at most numeral m
AtMost(d, m) == Len(d) < Len(m) \/ (Len(d) = Len(m) /\ (d = m \/ LexLess(d, m)))

MaxInt32 == <<2, 1, 4, 7, 4, 8, 3, 6, 4, 7>>
MinInt32 == <<2, 1, 4, 7, 4, 8, 3, 6, 4, 8>>
MaxInt64 == <<9, 2, 2, 3, 3, 7, 2, 0, 3, 6, 8, 5, 4, 7, 7, 5, 8, 0, 7>>
MinInt64 == <<9, 2, 2, 3, 3, 7, 2, 0, 3, 6, 8, 5, 4, 7, 7, 5, 8, 0, 8>>
\* the magnitude of the largest and of the smallest integer of the size
IntLimit(bitSize, neg) ==
    IF bitSize = 32 THEN (IF neg THEN MinInt32 ELSE MaxInt32)
    ELSE (IF neg THEN MinInt64 ELSE MaxInt64)

AllDigits(s) == \A i \in 1..Len(s) : s[i] \in Digits
Unsigned(s) == IF s # <<>> /\ s[1] \in {"-", "+"} THEN Tail(s) ELSE s
Negative(s) == s # <<>> /\ s[1] = "-"
ZeroInt == [neg |-> FALSE, digits |-> <<0>>]

\* strconv.ParseInt(value, 0, bitSize): the value; 0 on a syntax error, the
\* integer of the largest magnitude of the size and sign on a range error
ParseInt(s, bitSize) ==
    LET u == Unsigned(s)
        d == Expand(u)
        limit == IntLimit(bitSize, Negative(s))
    IN  IF u = <<>> \/ ~AllDigits(u) THEN [v |-> ZeroInt, ok |-> FALSE]
        ELSE IF AtMost(d, limit) THEN [v |-> [neg |-> Negative(s), digits |-> d], ok |-> TRUE]
        ELSE [v |-> [neg |-> Negative(s), digits |-> limit], ok |-> FALSE]

\* the conversion int32(v) of a value that ParseInt returned for bitSize 32
Int32Of(v) == DigitsValue(v.digits, v.neg)

\* the smallest integers that overflow to infinity: 2^128 - 2^102 as
\* float32, 2^1024 - 2^970 as float64
FloatLimit32 ==
    <<3, 4, 0, 2, 8, 2, 3, 6, 1, 8, 5, 0, 3, 3, 6, 0, 6, 2, 5, 5, 0, 4, 5, 7,
    0, 0, 1, 4, 4, 4, 9, 5, 5, 3, 8, 9, 9, 5, 2>>
FloatLimit64 ==
    <<1, 7, 9, 7, 6, 9, 3, 1, 3, 4, 8, 6, 2, 3, 1, 5, 8, 0, 7, 9, 3, 7, 2, 8,
    9, 7, 1, 4, 0, 5, 3, 0, 3, 4, 1, 5, 0, 7, 9, 9, 3, 4, 1, 3, 2, 7, 1, 0,
    0, 3, 7, 8, 2, 6, 9, 3, 6, 1, 7, 3, 7, 7, 8, 9, 8, 0, 4, 4, 4, 9, 6, 8,
    2, 9, 2, 7, 6, 4, 7, 5, 0, 9, 4, 6, 6, 4, 9, 0, 1, 7, 9, 7, 7, 5, 8, 7,
    2, 0, 7, 0, 9, 6, 3, 3, 0, 2, 8, 6, 4, 1, 6, 6, 9, 2, 8, 8, 7, 9, 1, 0,
    9, 4, 6, 5, 5, 5, 5, 4, 7, 8, 5, 1, 9, 4, 0, 4, 0, 2, 6, 3, 0, 6, 5, 7,
    4, 8, 8, 6, 7, 1, 5, 0, 5, 8, 2, 0, 6, 8, 1, 9, 0, 8, 9, 0, 2, 0, 0, 0,
    7, 0, 8, 3, 8, 3, 6, 7, 6, 2, 7, 3, 8, 5, 4, 8, 4, 5, 8, 1, 7, 7, 1, 1,
    5, 3, 1, 7, 6, 4, 4, 7, 5, 7, 3, 0, 2, 7, 0, 0, 6, 9, 8, 5, 5, 5, 7, 1,
    3, 6, 6, 9, 5, 9, 6, 2, 2, 8, 4, 2, 9, 1, 4, 8, 1, 9, 8, 6, 0, 8, 3, 4,
    9, 3, 6, 4, 7, 5, 2, 9, 2, 7, 1, 9, 0, 7, 4, 1, 6, 8, 4, 4, 4, 3, 6, 5,
    5, 1, 0, 7, 0, 4, 3, 4, 2, 7, 1, 1, 5, 5, 9, 6, 9, 9, 5, 0, 8, 0, 9, 3,
    0, 4, 2, 8, 8, 0, 1, 7, 7, 9, 0, 4, 1, 7, 4, 4, 9, 7, 7, 9, 2>>
ZeroFloat == [neg |-> FALSE, digits |-> <<0>>, dec |-> 0, inf |-> FALSE]

\* strconv.ParseFloat(value, bitSize): the float nearest to the decimal with
\* digits `digits`, the last `dec` of them after the point; 0 on a syntax
\* error, infinity on a range error
ParseFloat(s, bitSize) ==
    LET u == Unsigned(s)
        dots == {i \in 1..Len(u) : u[i] = "."}
        ds == SelectSeq(u, LAMBDA c : c # ".")
        after == IF dots = {} THEN <<>> ELSE DropFirst(u, CHOOSE i \in dots : TRUE)
        d == Expand(ds)
        dec == Len(Expand(after))
        whole == SubSeq(d, 1, Len(d) - dec)
        limit == IF bitSize = 32 THEN FloatLimit32 ELSE FloatLimit64
    IN  IF ds = <<>> \/ ~AllDigits(ds) \/ Cardinality(dots) > 1
        THEN [v |-> ZeroFloat, ok |-> FALSE]
        ELSE IF AtMost(limit, whole)
        THEN [v |-> [neg |-> Negative(s), digits |-> <<>>, dec |-> 0, inf |-> TRUE],
              ok |-> FALSE]
        ELSE [v |-> [neg |-> Negative(s), digits |-> d, dec |-> dec, inf |-> FALSE],
              ok |-> TRUE]

\* strconv.ParseBool
ParseBool(s) == s = <<"true">>

ZeroTime == "0001-01-01T00:00:00Z"

\* parseUTCDate (part_012:129-139)
parseUTCDate(value) ==
    CASE value = <<RFC3339Z>> -> "2020-01-01T12:00:00Z"
      [] value = <<RFC3339Offset>> -> "2020-01-01T12:00:00Z"
      [] value = <<DateDash>> -> "2021-02-16T00:00:00Z"
      [] value = <<DateSlash>> -> "2021-02-16T00:00:00Z"
      [] OTHER -> ZeroTime

(***************************************************************************)
(* detectComparisonOperator (part_012:141-203).                            *)
(***************************************************************************)
\* mutant of detectComparisonOperator: `-` is an operator for every type
detectComparisonOperator_DashAlways(value, isTime) ==
    IF StrLen(value) < 2 THEN [value |-> value, oper |-> ""]
    ELSE
        LET two ==
                IF StrLen(value) >= 3
                THEN LET o1 == IF HasPrefix(value, <<"<", "=">>) THEN "$lte" ELSE ""
                         o2 == IF HasPrefix(value, <<">", "=">>) THEN "$gte" ELSE o1
                         o3 == IF HasPrefix(value, <<"!", "=">>) THEN "$ne" ELSE o2
                         uv == IF o3 # "" THEN DropFirst(value, 2) ELSE <<>>
                     IN  [value |-> IF uv # <<>> THEN uv ELSE value, oper |-> o3]
                ELSE [value |-> value, oper |-> ""]
            one ==
                IF StrLen(two.value) >= 2
                THEN LET o1 == IF HasPrefix(two.value, <<"<">>) THEN "$lt" ELSE two.oper
                         o2 == IF HasPrefix(two.value, <<">">>) THEN "$gt" ELSE o1
                         o3 == IF HasPrefix(two.value, <<"-">>) THEN "$ne" ELSE o2
                         hit == \/ HasPrefix(two.value, <<"<">>)
                                \/ HasPrefix(two.value, <<">">>)
                                \/ HasPrefix(two.value, <<"-">>)
                         uv == IF hit THEN DropFirst(two.value, 1) ELSE <<>>
                     IN  [value |-> IF uv # <<>> THEN uv ELSE two.value, oper |-> o3]
                ELSE two
        IN  one

detectComparisonOperator(value, isTime) ==
    IF StrLen(value) < 2 THEN [value |-> value, oper |-> ""]
    ELSE
        LET two ==
                IF StrLen(value) >= 3
                THEN LET o1 == IF HasPrefix(value, <<"<", "=">>) THEN "$lte" ELSE ""
                         o2 == IF HasPrefix(value, <<">", "=">>) THEN "$gte" ELSE o1
                         o3 == IF HasPrefix(value, <<"!", "=">>) THEN "$ne" ELSE o2
                         uv == IF o3 # "" THEN DropFirst(value, 2) ELSE <<>>
                     IN  [value |-> IF uv # <<>> THEN uv ELSE value, oper |-> o3]
                ELSE [value |-> value, oper |-> ""]
            one ==
                IF StrLen(two.value) >= 2
                THEN LET o1 == IF HasPrefix(two.value, <<"<">>) THEN "$lt" ELSE two.oper
                         o2 == IF HasPrefix(two.value, <<">">>) THEN "$gt" ELSE o1
                         o3 == IF isTime /\ HasPrefix(two.value, <<"-">>) THEN "$ne" ELSE o2
                         hit == \/ HasPrefix(two.value, <<"<">>)
                                \/ HasPrefix(two.value, <<">">>)
                                \/ isTime /\ HasPrefix(two.value, <<"-">>)
                         uv == IF hit THEN DropFirst(two.value, 1) ELSE <<>>
                     IN  [value |-> IF uv # <<>> THEN uv ELSE two.value, oper |-> o3]
                ELSE two
        IN  one

(***************************************************************************)
(* detectDateComparisonOperator (part_012:205-294).                        *)
(***************************************************************************)
Cond(field, op, value) == [k |-> "D", v |-> <<BE(field, BD(op, value))>>]

\* mutant of DetermineQuery: the bare values are not added to the group
DetermineQuery_NoIn(field, lo, op, a, ina) ==
    IF op
    THEN One(LogicalOperatorString(lo), BA(a))
    ELSE One(field, BD("$in", BA(ina)))

\* part_012:237-261 and 365-389: the group of conditions when a token had an
\* operator, the $in clause otherwise
DetermineQuery(field, lo, op, a, ina) ==
    IF op
    THEN One(LogicalOperatorString(lo),
             BA(IF Len(ina) > 0 THEN Append(a, Cond(field, "$in", BA(ina))) ELSE a))
    ELSE One(field, BD("$in", BA(ina)))

RECURSIVE DateLoop(_, _, _, _, _)
\* the loop of part_012:217-235 from token i on; op is set exactly when a grows
DateLoop(field, values, i, a, ina) ==
    IF i > Len(values) THEN [a |-> a, ina |-> ina]
    ELSE
        LET tok == detectComparisonOperator(values[i], FALSE)
            dv == BTime(parseUTCDate(tok.value))
        IN  IF tok.oper # ""
            THEN DateLoop(field, values, i + 1, Append(a, Cond(field, tok.oper, dv)), ina)
            ELSE DateLoop(field, values, i + 1, a, Append(ina, dv))

detectDateComparisonOperator(field, values, lo) ==
    IF Len(values) = 0 THEN NilM
    ELSE IF Len(values) > 1
    THEN LET l == DateLoop(field, values, 1, <<>>, <<>>)
             op == l.a # <<>>
         IN  DetermineQuery(field, lo, op, l.a, l.ina)
    ELSE LET tok == detectComparisonOperator(values[1], TRUE)
         IN  IF reNullMatch(tok.value)
             THEN IF tok.oper # ""
                  THEN One(field, BD(tok.oper, BNil))
                  ELSE One(field, BNil)
             ELSE LET dv == BTime(parseUTCDate(tok.value))
                  IN  IF tok.oper # ""
                      THEN One(field, BD(tok.oper, dv))
                      ELSE One(field, dv)

(***************************************************************************)
(* detectNumericComparisonOperator (part_012:296-449).                     *)
(***************************************************************************)
\* mutant of BitSize: int is given the width of long
BitSize_IntAsLong(numericType) ==
    CASE numericType = "decimal" -> 32
      [] numericType = "double" -> 64
      [] numericType = "int" -> 64
      [] numericType = "long" -> 64
      [] OTHER -> 0

\* the switch of part_012:301-313; 0 stands for the default branch
BitSize(numericType) ==
    CASE numericType = "decimal" -> 32
      [] numericType = "double" -> 64
      [] numericType = "int" -> 32
      [] numericType = "long" -> 64
      [] OTHER -> 0

\* part_012:324-343 and 416-436: parse and retype one value
NumericValue(value, numericType, bitSize) ==
    IF numericType = "decimal" \/ numericType = "double"
    THEN LET f == ParseFloat(value, bitSize).v
         IN  IF bitSize = 32 THEN BFloat32(f) ELSE BFloat64(f)
    ELSE LET n == ParseInt(value, bitSize).v
         IN  IF bitSize = 32 THEN BInt32(Int32Of(n)) ELSE BInt64(n)

RECURSIVE NumericLoop(_, _, _, _, _, _, _)
\* the loop of part_012:321-363 from token i on
NumericLoop(field, values, numericType, bitSize, i, a, ina) ==
    IF i > Len(values) THEN [a |-> a, ina |-> ina]
    ELSE
        LET tok == detectComparisonOperator(values[i], FALSE)
            pv == NumericValue(tok.value, numericType, bitSize)
        IN  IF tok.oper # ""
            THEN NumericLoop(field, values, numericType, bitSize, i + 1,
                             Append(a, Cond(field, tok.oper, pv)), ina)
            ELSE NumericLoop(field, values, numericType, bitSize, i + 1,
                             a, Append(ina, pv))

detectNumericComparisonOperator(field, values, numericType, lo) ==
    IF Len(values) = 0 THEN NilM
    ELSE IF BitSize(numericType) = 0 THEN NilM
    ELSE IF Len(values) > 1
    THEN LET l == NumericLoop(field, values, numericType, BitSize(numericType), 1, <<>>, <<>>)
             op == l.a # <<>>
         IN  DetermineQuery(field, lo, op, l.a, l.ina)
    ELSE LET tok == detectComparisonOperator(values[1], FALSE)
         IN  IF reNullMatch(tok.value)
             THEN LET op == IF HasPrefix(tok.value, <<"-">>) THEN "$ne" ELSE tok.oper
                  IN  IF op # ""
                      THEN One(field, BD(op, BNil))
                      ELSE One(field, BNil)
             ELSE LET parsedValue == NumericValue(tok.value, numericType, BitSize(numericType))
                  IN  IF tok.oper # ""
                      THEN One(field, BD(tok.oper, parsedValue))
                      ELSE One(field, parsedValue)

(***************************************************************************)
(* detectStringComparisonOperator (part_012:451-612).                      *)
(***************************************************************************)
RECURSIVE ObjectLoop(_, _, _, _)
\* mutant of ObjectLoop: a key that is already set keeps its first condition
ObjectLoop_KeepFirst(field, values, i, m) ==
    IF i > Len(values) THEN m
    ELSE
        LET fn0 == values[i]
            dash == StrLen(fn0) >= 2 /\ HasPrefix(fn0, <<"-">>)
            fn1 == IF dash THEN DropFirst(fn0, 1) ELSE fn0
            bang == ~dash /\ StrLen(fn1) >= 3 /\ HasPrefix(fn1, <<"!", "=">>)
            fn2 == IF bang THEN DropFirst(fn1, 2) ELSE fn1
            exists == ~dash /\ ~bang
            fn == field \o <<".">> \o fn2
        IN  ObjectLoop(field, values, i + 1, m @@ (fn :> BD("$exists", BBool(exists))))

\* the loop of part_012:460-481 from token i on; m is the filter built so far
ObjectLoop(field, values, i, m) ==
    IF i > Len(values) THEN m
    ELSE
        LET fn0 == values[i]
            dash == StrLen(fn0) >= 2 /\ HasPrefix(fn0, <<"-">>)
            fn1 == IF dash THEN DropFirst(fn0, 1) ELSE fn0
            bang == ~dash /\ StrLen(fn1) >= 3 /\ HasPrefix(fn1, <<"!", "=">>)
            fn2 == IF bang THEN DropFirst(fn1, 2) ELSE fn1
            exists == ~dash /\ ~bang
            fn == field \o <<".">> \o fn2
        IN  ObjectLoop(field, values, i + 1, (fn :> BD("$exists", BBool(exists))) @@ m)

\* mutant of SingleString: the exact match is case-insensitive too
SingleString_ExactInsensitive(field, value0) ==
    IF ~reWordMatch(value0) THEN NilM
    ELSE
        LET long == StrLen(value0) > 1
            bw0 == long /\ HasSuffix(value0, <<"*">>)
            ew0 == long /\ HasPrefix(value0, <<"*">>)
            c == bw0 /\ ew0
            ne0 == long /\ HasPrefix(value0, <<"-">>)
            v1 == IF ne0 \/ ew0 THEN DropFirst(value0, 1) ELSE value0
            v2 == IF bw0 THEN DropLast(v1, 1) ELSE v1
            bw == bw0 /\ ~c
            ew == ew0 /\ ~c
            second == StrLen(v2) > 2 /\ ~ne0
            ne == IF second THEN HasPrefix(v2, <<"!", "=">>) ELSE ne0
            em == second /\ HasPrefix(v2, <<"\"">>) /\ HasSuffix(v2, <<"\"">>)
            v3 == IF second /\ ne THEN DropFirst(v2, 2) ELSE v2
            value == IF em THEN DropLast(DropFirst(v3, 1), 1) ELSE v3
        IN  IF reNullMatch(value)
            THEN IF ne THEN One(field, BD("$ne", BNil)) ELSE One(field, BNil)
            ELSE IF ne THEN One(field, BD("$ne", BStr(value)))
            ELSE IF c THEN One(field, BRegex(value, "i"))
            ELSE IF bw THEN One(field, BRegex(<<"^">> \o value, "i"))
            ELSE IF ew THEN One(field, BRegex(value \o <<"$">>, "i"))
            ELSE IF em THEN One(field, BRegex(<<"^">> \o value \o <<"$">>, "i"))
            ELSE One(field, BStr(value))

\* part_012:507-612: a single token of a string or array field
SingleString(field, value0) ==
    IF ~reWordMatch(value0) THEN NilM
    ELSE
        LET long == StrLen(value0) > 1
            bw0 == long /\ HasSuffix(value0, <<"*">>)
            ew0 == long /\ HasPrefix(value0, <<"*">>)
            c == bw0 /\ ew0
            ne0 == long /\ HasPrefix(value0, <<"-">>)
            v1 == IF ne0 \/ ew0 THEN DropFirst(value0, 1) ELSE value0
            v2 == IF bw0 THEN DropLast(v1, 1) ELSE v1
            bw == bw0 /\ ~c
            ew == ew0 /\ ~c
            second == StrLen(v2) > 2 /\ ~ne0
            ne == IF second THEN HasPrefix(v2, <<"!", "=">>) ELSE ne0
            em == second /\ HasPrefix(v2, <<"\"">>) /\ HasSuffix(v2, <<"\"">>)
            v3 == IF second /\ ne THEN DropFirst(v2, 2) ELSE v2
            value == IF em THEN DropLast(DropFirst(v3, 1), 1) ELSE v3
        IN  IF reNullMatch(value)
            THEN IF ne THEN One(field, BD("$ne", BNil)) ELSE One(field, BNil)
            ELSE IF ne THEN One(field, BD("$ne", BStr(value)))
            ELSE IF c THEN One(field, BRegex(value, "i"))
            ELSE IF bw THEN One(field, BRegex(<<"^">> \o value, "i"))
            ELSE IF ew THEN One(field, BRegex(value \o <<"$">>, "i"))
            ELSE IF em THEN One(field, BRegex(<<"^">> \o value \o <<"$">>, ""))
            ELSE One(field, BStr(value))

\* mutant of detectStringComparisonOperator: an array field uses $in as well
detectStringComparisonOperator_AlwaysIn(field, values, bsonType) ==
    IF Len(values) = 0 THEN NilM
    ELSE IF bsonType = "object" THEN BM(ObjectLoop(field, values, 1, <<>>))
    ELSE IF Len(values) > 1
    THEN LET a == [i \in 1..Len(values) |-> BStr(values[i])]
         IN  One(field, BD("$in", BA(a)))
    ELSE SingleString(field, values[1])

detectStringComparisonOperator(field, values, bsonType) ==
    IF Len(values) = 0 THEN NilM
    ELSE IF bsonType = "object" THEN BM(ObjectLoop(field, values, 1, <<>>))
    ELSE IF Len(values) > 1
    THEN LET a == [i \in 1..Len(values) |-> BStr(values[i])]
         IN  IF bsonType = "array"
             THEN One(field, BA(a))
             ELSE One(field, BD("$in", BA(a)))
    ELSE SingleString(field, values[1])

(***************************************************************************)
(* combine (part_012:614-644).  Ranging over a nil map does nothing.       *)
(***************************************************************************)
RECURSIVE combine(_, _)
\* mutant of combine: the arrays are joined the other way round
combine_Prepend(a, b) ==
    IF b.k # "M" THEN a
    ELSE BM([key \in DOMAIN a.v \cup DOMAIN b.v |->
            IF key \notin DOMAIN b.v THEN a.v[key]
            ELSE IF key \notin DOMAIN a.v THEN b.v[key]
            ELSE LET ev == a.v[key]
                     v == b.v[key]
                 IN  IF ev.k = "M" /\ v.k = "M" THEN combine(ev, v)
                     ELSE IF ev.k = "A" /\ v.k = "A" THEN BA(v.v \o ev.v)
                     ELSE v])

\* mutant of combine: a document of b replaces the document of a
combine_Shallow(a, b) ==
    IF b.k # "M" THEN a
    ELSE BM([key \in DOMAIN a.v \cup DOMAIN b.v |->
            IF key \notin DOMAIN b.v THEN a.v[key]
            ELSE IF key \notin DOMAIN a.v THEN b.v[key]
            ELSE LET ev == a.v[key]
                     v == b.v[key]
                 IN  IF ev.k = "A" /\ v.k = "A" THEN BA(ev.v \o v.v)
                     ELSE v])

\* mutant of combine: the keys of a are dropped
combine_OnlyFrom(a, b) == IF b.k # "M" THEN a ELSE b

\* mutant of combine: an array of b replaces the array of a
combine_Overwrite(a, b) ==
    IF b.k # "M" THEN a
    ELSE BM([key \in DOMAIN a.v \cup DOMAIN b.v |->
            IF key \notin DOMAIN b.v THEN a.v[key]
            ELSE IF key \notin DOMAIN a.v THEN b.v[key]
            ELSE LET ev == a.v[key]
                     v == b.v[key]
                 IN  IF ev.k = "M" /\ v.k = "M" THEN combine(ev, v)
                     ELSE v])

combine(a, b) ==
    IF b.k # "M" THEN a
    ELSE BM([key \in DOMAIN a.v \cup DOMAIN b.v |->
            IF key \notin DOMAIN b.v THEN a.v[key]
            ELSE IF key \notin DOMAIN a.v THEN b.v[key]
            ELSE LET ev == a.v[key]
                     v == b.v[key]
                 IN  IF ev.k = "M" /\ v.k = "M" THEN combine(ev, v)
                     ELSE IF ev.k = "A" /\ v.k = "A" THEN BA(ev.v \o v.v)
                     ELSE v])

\* no goroutine calls Filter
NoCalls == <<>>

\* no FindOptions call has been made
NoFind == [called |-> FALSE, Page |-> <<>>, Fields |-> <<>>, Sort |-> <<>>,
           nil |-> TRUE, err |-> NoErr,
           opts |-> [Limit |-> [set |-> FALSE, v |-> 0], Skip |-> [set |-> FALSE, v |-> 0],
                     Projection |-> [set |-> FALSE, v |-> 0],
                     Sort |-> [set |-> FALSE, v |-> 0]]]

\* no combine call on its own is under way
NoMerge == [a |-> NilM, b |-> NilM, c |-> NilM, out |-> <<>>]

(***************************************************************************)
(* QueryBuilder.Filter (query.go:92-135).                                  *)
(***************************************************************************)
RECURSIVE BoolLoop(_, _, _, _)
\* the loop of query.go:119-123 from token i on
BoolLoop(f, field, values, i) ==
    IF i > Len(values) THEN f
    ELSE BoolLoop(combine(f, One(field, BBool(ParseBool(values[i])))), field, values, i + 1)

\* query.go:105-107: the type of the field, "" when the map has none
LookupType(b, field) ==
    IF field \in DOMAIN b.fieldTypes THEN b.fieldTypes[field] ELSE ""

\* mutant of StrictFails: a type that Filter has no case for is rejected too
StrictFails_Unsupported(b, bsonType) ==
    /\ b.strictValidation
    /\ bsonType \notin {"array", "object", "string", "bool", "date", "timestamp",
                        "decimal", "double", "int", "long"}

\* mutant of StrictFails: the strict validation check is left out
StrictFails_Never(b, bsonType) == FALSE

\* query.go:110: the strict validation check of one field
StrictFails(b, bsonType) == bsonType = "" /\ b.strictValidation

\* query.go:114-130: the switch on the type of one field
FilterField(f, field, values, bsonType, lo) ==
    CASE bsonType \in {"array", "object", "string"} ->
            combine(f, detectStringComparisonOperator(field, values, bsonType))
      [] bsonType = "bool" -> BoolLoop(f, field, values, 1)
      [] bsonType \in {"date", "timestamp"} ->
            combine(f, detectDateComparisonOperator(field, values, lo))
      [] bsonType \in {"decimal", "double", "int", "long"} ->
            combine(f, detectNumericComparisonOperator(field, values, bsonType, lo))
      [] OTHER -> f

\* query.go:94-98
OperOf(args) == IF Len(args) > 0 THEN args[1] ELSE And

RECURSIVE FilterFrom(_, _, _, _, _)
\* Filter as a function of the order in which the range loop visits the fields:
\* the loop from position i of order on, with running filter f
FilterFrom(b, raw, lo, order, f) ==
    IF order = <<>> THEN [filter |-> f, err |-> NoErr]
    ELSE LET field == Head(order)
             bsonType == LookupType(b, field)
         IN  IF StrictFails(b, bsonType)
             THEN [filter |-> NilM, err |-> FieldError(field, b.collection)]
             ELSE FilterFrom(b, raw, lo, Tail(order),
                             FilterField(f, field, raw[field], bsonType, lo))

Filter(b, raw, args, order) == FilterFrom(b, raw, OperOf(args), order, EmptyM)

(***************************************************************************)
(* QueryBuilder.FindOptions (query.go:139-254).  A slice field[0:1] of an  *)
(* empty string panics.                                                    *)
(***************************************************************************)
Unset == [set |-> FALSE, v |-> 0]
SetTo(n) == [set |-> TRUE, v |-> n]
\* options.Find()
Find == [Limit |-> Unset, Skip |-> Unset, Projection |-> Unset, Sort |-> Unset]

\* query.go:158-182
setPaginationOptions(pagination, opts) ==
    LET has(key) == key \in DOMAIN pagination
        o1 == IF has("limit") THEN [opts EXCEPT !.Limit = SetTo(pagination["limit"])]
              ELSE opts
        o2 == IF has("limit") /\ has("offset")
              THEN [o1 EXCEPT !.Skip = SetTo(pagination["offset"])] ELSE o1
        o3 == IF has("limit") /\ has("skip")
              THEN [o2 EXCEPT !.Skip = SetTo(pagination["skip"])] ELSE o2
        o4 == IF has("size") THEN [o3 EXCEPT !.Limit = SetTo(pagination["size"])] ELSE o3
    IN  IF has("size") /\ has("page")
        THEN [o4 EXCEPT !.Skip = SetTo(pagination["page"] * pagination["size"])]
        ELSE o4

\* the outcomes of the loops over the names
FieldsDone(m) == [panic |-> FALSE, err |-> NoErr, m |-> m]
FieldsError(field, collection) ==
    [panic |-> FALSE, err |-> FieldError(field, collection), m |-> <<>>]
FieldsPanic == [panic |-> TRUE, err |-> NoErr, m |-> <<>>]

RECURSIVE ProjectionLoop(_, _, _, _)
\* query.go:188-213: the loop from name i on, prj being the map so far
ProjectionLoop(b, fields, i, prj) ==
    IF i > Len(fields) THEN FieldsDone(prj)
    ELSE IF StrLen(fields[i]) = 0 THEN FieldsPanic
    ELSE LET minus == HasPrefix(fields[i], <<"-">>)
             f1 == IF minus THEN DropFirst(fields[i], 1) ELSE fields[i]
             f2 == IF StrLen(f1) > 0 /\ HasPrefix(f1, <<"+">>) THEN DropFirst(f1, 1) ELSE f1
         IN  IF b.strictValidation /\ f2 \notin DOMAIN b.fieldTypes
             THEN FieldsError(f2, b.collection)
             ELSE ProjectionLoop(b, fields, i + 1,
                                 (f2 :> (IF minus THEN 0 ELSE 1)) @@ prj)

\* query.go:184-222
setProjectionOptions(b, fields, opts) ==
    IF Len(fields) > 0
    THEN LET r == ProjectionLoop(b, fields, 1, <<>>)
         IN  IF r.panic \/ r.err # NoErr THEN [r EXCEPT !.m = opts]
             ELSE FieldsDone(IF DOMAIN r.m # {}
                             THEN [opts EXCEPT !.Projection = SetTo(r.m)] ELSE opts)
    ELSE FieldsDone(opts)

RECURSIVE SortLoop(_, _, _, _)
\* query.go:227-248: the loop from name i on, sort being the map so far
SortLoop(b, fields, i, sort) ==
    IF i > Len(fields) THEN FieldsDone(sort)
    ELSE IF StrLen(fields[i]) = 0 THEN FieldsPanic
    ELSE LET minus == HasPrefix(fields[i], <<"-">>)
             f1 == IF minus THEN DropFirst(fields[i], 1) ELSE fields[i]
         IN  IF StrLen(f1) = 0 THEN FieldsPanic
             ELSE LET f2 == IF HasPrefix(f1, <<"+">>) THEN DropFirst(f1, 1) ELSE f1
                  IN  IF b.strictValidation /\ f2 \notin DOMAIN b.fieldTypes
                      THEN FieldsError(f2, b.collection)
                      ELSE SortLoop(b, fields, i + 1,
                                    (f2 :> (IF minus THEN 0 - 1 ELSE 1)) @@ sort)

\* query.go:224-254
setSortOptions(b, fields, opts) ==
    IF Len(fields) > 0
    THEN LET r == SortLoop(b, fields, 1, <<>>)
         IN  IF r.panic \/ r.err # NoErr THEN [r EXCEPT !.m = opts]
             ELSE FieldsDone([opts EXCEPT !.Sort = SetTo(r.m)])
    ELSE FieldsDone(opts)

\* query.go:139-156: the options and the error returned, or a panic
FindOptions(b, options) ==
    LET paged == setPaginationOptions(options.Page, Find)
        prj == setProjectionOptions(b, options.Fields, paged)
        srt == setSortOptions(b, options.Sort, prj.m)
        returned(opts, e) == [panic |-> FALSE, nil |-> e # NoErr, opts |-> opts, err |-> e]
    IN  IF prj.panic THEN [panic |-> TRUE, nil |-> TRUE, opts |-> Find, err |-> NoErr]
        ELSE IF prj.err # NoErr THEN returned(Find, prj.err)
        ELSE IF srt.panic THEN [panic |-> TRUE, nil |-> TRUE, opts |-> Find, err |-> NoErr]
        ELSE IF srt.err # NoErr THEN returned(Find, srt.err)
        ELSE returned(srt.m, NoErr)

(***************************************************************************)
(* Schemas: the Go values a caller can pass, and a JSON text as the        *)
(* document it spells.                                                     *)
(***************************************************************************)
GoNil == [k |-> "nil", v |-> <<>>]
GoString(s) == [k |-> "string", v |-> s]
GoStrings(l) == [k |-> "[]string", v |-> l]
GoA(l) == [k |-> "bson.A", v |-> l]
GoM(m) == [k |-> "bson.M", v |-> m]
GoMap(m) == [k |-> "map[string]any", v |-> m]
GoBytes(t) == [k |-> "[]byte", v |-> t]
\* the value of a call that panics
GoPanic == [k |-> "panic", v |-> <<>>]

\* JSON documents
JNull == [k |-> "jnull", v |-> <<>>]
JStr(s) == [k |-> "jstring", v |-> s]
JArr(l) == [k |-> "jarray", v |-> l]
JObj(m) == [k |-> "jobject", v |-> m]
\* a text that spells document doc, and a text that is not JSON
JSONText(doc) == [valid |-> TRUE, doc |-> doc]
NotJSON == [valid |-> FALSE, doc |-> JNull]

RECURSIVE GoOf(_, _, _)
\* document c as a Go value: objects as maps of type container, lists of
\* strings as type list
GoOf(c, container, list) ==
    CASE c.k = "jobject" ->
            [k |-> container,
             v |-> [key \in DOMAIN c.v |-> GoOf(c.v[key], container, list)]]
      [] c.k = "jarray" ->
            IF list = "[]string"
            THEN GoStrings([i \in 1..Len(c.v) |-> c.v[i].v])
            ELSE GoA([i \in 1..Len(c.v) |-> GoOf(c.v[i], container, list)])
      [] c.k = "jstring" -> GoString(c.v)
      [] OTHER -> GoNil

\* bson.UnmarshalExtJSON(text, false, &m) into an empty map[string]any: the
\* objects become map[string]any and the lists primitive.A; on an error the
\* map stays empty
UnmarshalExtJSON(text) ==
    IF text.valid /\ text.doc.k = "jobject"
    THEN GoOf(text.doc, "map[string]any", "bson.A")
    ELSE GoMap(<<>>)

(***************************************************************************)
(* Schema resolution (part_012:19-127).  A failed type assertion, a method *)
(* call on a nil reflect.Type and an index out of range panic.             *)
(***************************************************************************)
Resolved(ft) == [panic |-> FALSE, ft |-> ft]
ResolvePanic == [panic |-> TRUE, ft |-> <<>>]
Put(ft, key, bsonType) == (key :> bsonType) @@ ft

RECURSIVE iterateProperties(_, _, _)
RECURSIVE IterateFrom(_, _, _, _)
\* IterateField without the type of the items of an array
IterateField_KeepArray(parentPrefix, field, value, ft) ==
    IF value.k # "bson.M" THEN Resolved(ft)
    ELSE IF "bsonType" \in DOMAIN value.v
    THEN LET bt == value.v["bsonType"]
         IN  IF bt.k # "string" THEN ResolvePanic
             ELSE
                LET path == parentPrefix \o <<field>>
                    ft1 == IF bt.v # "" THEN Put(ft, path, bt.v) ELSE ft
                    hasItems == bt.v = "array" /\ "items" \in DOMAIN value.v
                    value2 == IF hasItems THEN value.v["items"] ELSE value
                IN  IF value2.k # "bson.M" THEN ResolvePanic
                    ELSE IF hasItems /\ "bsonType" \in DOMAIN value2.v
                            /\ value2.v["bsonType"].k # "string"
                    THEN ResolvePanic
                    ELSE
                        LET ft2 == ft1
                        IN  IF "properties" \in DOMAIN value2.v
                            THEN IF value2.v["properties"].k # "bson.M" THEN ResolvePanic
                                 ELSE iterateProperties(path \o <<".">>,
                                                        value2.v["properties"], ft2)
                            ELSE Resolved(ft2)
    ELSE IF "enum" \in DOMAIN value.v
    THEN Resolved(Put(ft, parentPrefix \o <<field>>, "object"))
    ELSE Resolved(ft)

\* IterateField with an enum-only property tagged string
IterateField_EnumString(parentPrefix, field, value, ft) ==
    IF value.k # "bson.M" THEN Resolved(ft)
    ELSE IF "bsonType" \in DOMAIN value.v
    THEN LET bt == value.v["bsonType"]
         IN  IF bt.k # "string" THEN ResolvePanic
             ELSE
                LET path == parentPrefix \o <<field>>
                    ft1 == IF bt.v # "" THEN Put(ft, path, bt.v) ELSE ft
                    hasItems == bt.v = "array" /\ "items" \in DOMAIN value.v
                    value2 == IF hasItems THEN value.v["items"] ELSE value
                IN  IF value2.k # "bson.M" THEN ResolvePanic
                    ELSE IF hasItems /\ "bsonType" \in DOMAIN value2.v
                            /\ value2.v["bsonType"].k # "string"
                    THEN ResolvePanic
                    ELSE
                        LET ft2 == IF hasItems /\ "bsonType" \in DOMAIN value2.v
                                      /\ value2.v["bsonType"].v # ""
                                   THEN Put(ft1, path, value2.v["bsonType"].v)
                                   ELSE ft1
                        IN  IF "properties" \in DOMAIN value2.v
                            THEN IF value2.v["properties"].k # "bson.M" THEN ResolvePanic
                                 ELSE iterateProperties(path \o <<".">>,
                                                        value2.v["properties"], ft2)
                            ELSE Resolved(ft2)
    ELSE IF "enum" \in DOMAIN value.v
    THEN Resolved(Put(ft, parentPrefix \o <<field>>, "string"))
    ELSE Resolved(ft)

\* part_012:22-66: the body of the range loop for one field; ft is the map so far
IterateField(parentPrefix, field, value, ft) ==
    IF value.k # "bson.M" THEN Resolved(ft)
    ELSE IF "bsonType" \in DOMAIN value.v
    THEN LET bt == value.v["bsonType"]
         IN  IF bt.k # "string" THEN ResolvePanic
             ELSE
                LET path == parentPrefix \o <<field>>
                    ft1 == IF bt.v # "" THEN Put(ft, path, bt.v) ELSE ft
                    hasItems == bt.v = "array" /\ "items" \in DOMAIN value.v
                    value2 == IF hasItems THEN value.v["items"] ELSE value
                IN  IF value2.k # "bson.M" THEN ResolvePanic
                    ELSE IF hasItems /\ "bsonType" \in DOMAIN value2.v
                            /\ value2.v["bsonType"].k # "string"
                    THEN ResolvePanic
                    ELSE
                        LET ft2 == IF hasItems /\ "bsonType" \in DOMAIN value2.v
                                      /\ value2.v["bsonType"].v # ""
                                   THEN Put(ft1, path, value2.v["bsonType"].v)
                                   ELSE ft1
                        IN  IF "properties" \in DOMAIN value2.v
                            THEN IF value2.v["properties"].k # "bson.M" THEN ResolvePanic
                                 ELSE iterateProperties(path \o <<".">>,
                                                        value2.v["properties"], ft2)
                            ELSE Resolved(ft2)
    ELSE IF "enum" \in DOMAIN value.v
    THEN Resolved(Put(ft, parentPrefix \o <<field>>, "object"))
    ELSE Resolved(ft)

\* the range loop over the fields in keys.  The loop visits the map in any
\* order; a field writes only the key of its own path, and the names of the
\* schemas of the model have no dot, so that no two fields write one key and
\* the order does not change the map.
IterateFrom(parentPrefix, properties, keys, out) ==
    IF out.panic \/ keys = {} THEN out
    ELSE LET field == CHOOSE f \in keys : TRUE
         IN  IterateFrom(parentPrefix, properties, keys \ {field},
                         IterateField(parentPrefix, field, properties.v[field], out.ft))

iterateProperties(parentPrefix, properties, ft) ==
    IterateFrom(parentPrefix, properties, DOMAIN properties.v, Resolved(ft))

\* part_012:97-113
parseBSONSchema(schema) ==
    LET wrapped == "$jsonSchema" \in DOMAIN schema.v
        schema2 == IF wrapped THEN schema.v["$jsonSchema"] ELSE schema
    IN  IF schema2.k # "bson.M" THEN ResolvePanic
        ELSE IF "properties" \in DOMAIN schema2.v
        THEN IF schema2.v["properties"].k # "bson.M" THEN ResolvePanic
             ELSE iterateProperties(<<>>, schema2.v["properties"], <<>>)
        ELSE Resolved(<<>>)

RECURSIVE conv(_)
\* part_012:73-92: a map[string]any as a bson.M
conv(m) ==
    LET bm == [key \in DOMAIN m.v |->
                LET v == m.v[key]
                IN  IF key = "bsonType" /\ v.k = "nil" THEN GoPanic
                    ELSE IF key = "bsonType" /\ v.k = "[]string"
                    THEN (IF v.v = <<>> THEN GoPanic ELSE GoString(v.v[1]))
                    ELSE IF v.k = "map[string]any" THEN conv(v)
                    ELSE v]
    IN  IF \E key \in DOMAIN bm : bm[key].k = "panic" THEN GoPanic ELSE GoM(bm)

\* part_012:70-95
parseMapSchema(schema) ==
    LET bm == conv(schema)
    IN  IF bm.k = "panic" THEN ResolvePanic ELSE parseBSONSchema(bm)

\* part_012:115-121
parseJSONSchema(schema) == parseMapSchema(UnmarshalExtJSON(schema))

\* part_012:123-127
parseStringSchema(schema) == parseMapSchema(UnmarshalExtJSON(schema))

(***************************************************************************)
(* updateOptions (part_000) and the reflection helpers (part_006).         *)
(*                                                                         *)
(* A Go value is a record [k, v]: k is its kind; v is its content.  A      *)
(* struct is the sequence of its fields, each with the name its bson/json  *)
(* tag gives it, whether it is exported, and its value.  A field path is   *)
(* a string: a sequence of lexemes.                                        *)
(***************************************************************************)
GoInt(n) == [k |-> "int", v |-> n]
GoBool(b) == [k |-> "bool", v |-> b]
GoSlice(s) == [k |-> "slice", v |-> s]
GoNilSlice == [k |-> "nilslice", v |-> <<>>]
GoNilPtr == [k |-> "nilptr", v |-> <<>>]
\* a time.Time: v = 0 is the zero time
GoTime(t) == [k |-> "time", v |-> t]
GoStruct(fields) == [k |-> "struct", v |-> fields]
GoPtrStruct(fields) == [k |-> "ptrstruct", v |-> fields]
StructField(name, exported, val) == [name |-> name, exported |-> exported, val |-> val]

\* part_000:11-13: UpdateOptions(); a nil map and an empty map read alike
UpdateOptions ==
    [nil |-> FALSE, addToSet |-> <<>>, ignoreFields |-> <<>>,
     strictValidation |-> <<>>, unsetWhenEmpty |-> <<>>]

\* a nil *updateOptions
NilOptions == [UpdateOptions EXCEPT !.nil = TRUE]

\* part_000:91-97
SetAddToSet(uo, fld, b) == [uo EXCEPT !.addToSet = (fld :> b) @@ uo.addToSet]

\* part_000:100-103
SetIgnoreFields(uo, flds) == [uo EXCEPT !.ignoreFields = uo.ignoreFields \o flds]

\* part_000:107-110
SetStrictValidation(uo, b) == [uo EXCEPT !.strictValidation = <<b>>]

\* part_000:169-175
SetUnsetWhenEmpty(uo, fld, b) == [uo EXCEPT !.unsetWhenEmpty = (fld :> b) @@ uo.unsetWhenEmpty]

\* part_000:177-185
fieldIgnored(uo, fld) == \E i \in 1..Len(uo.ignoreFields) : uo.ignoreFields[i] = fld

\* part_000:194-206: one option of the list is merged into uo
MergeOption(uo, opt) ==
    LET ats == [uo EXCEPT !.addToSet = opt.addToSet @@ uo.addToSet]
        ign == SetIgnoreFields(ats, opt.ignoreFields)
        sv == IF opt.strictValidation # <<>>
              THEN SetStrictValidation(ign, opt.strictValidation[1])
              ELSE ign
    IN  [sv EXCEPT !.unsetWhenEmpty = opt.unsetWhenEmpty @@ sv.unsetWhenEmpty]

\* part_000:189-207: the loop over the options, nil options skipped
RECURSIVE MergeLoop(_, _, _)
MergeLoop(opts, i, uo) ==
    IF i > Len(opts) THEN uo
    ELSE IF opts[i].nil THEN MergeLoop(opts, i + 1, uo)
    ELSE MergeLoop(opts, i + 1, MergeOption(uo, opts[i]))

\* part_000:187-210
mergeUpdateOptions(opts) == MergeLoop(opts, 1, UpdateOptions)

\* part_006:35-39: the field is a struct, or a pointer to one, that is not a time
IsNestedStruct(val) == val.k \in {"struct", "ptrstruct"}

\* part_006:8-58: the calls forEachField makes, in order, as <<path, value>>
RECURSIVE forEachField(_, _)
RECURSIVE FieldLoop(_, _, _)
FieldLoop(fields, i, pfx) ==
    IF i > Len(fields) THEN <<>>
    ELSE LET fld == fields[i]
             nm == IF pfx # <<>> THEN pfx \o <<".">> \o fld.name ELSE fld.name
         IN  IF ~fld.exported THEN FieldLoop(fields, i + 1, pfx)
             ELSE IF IsNestedStruct(fld.val)
             THEN forEachField(fld.val, nm) \o FieldLoop(fields, i + 1, pfx)
             ELSE <<[pth |-> nm, val |-> fld.val]>> \o FieldLoop(fields, i + 1, pfx)

forEachField(val, pfx) ==
    IF val.k \notin {"struct", "ptrstruct"} THEN <<>>
    ELSE FieldLoop(val.v, 1, pfx)

\* part_006:79-112
isValueEmpty(val) ==
    CASE val.k \in {"nilptr", "nilslice"} -> TRUE
      [] val.k \in {"slice", "ptrstruct"} -> FALSE
      [] val.k = "time" -> val.v = 0
      [] val.k = "string" -> val.v = <<>>
      [] val.k = "int" -> val.v = 0
      [] OTHER -> FALSE

(***************************************************************************)
(* UpdateBuilder.Update (part_001).                                        *)
(***************************************************************************)
DocNotStruct == [k |-> "doc must be a struct", field |-> <<>>, collection |-> ""]
UpdateFieldError(pth, clctn) ==
    [k |-> "field does not exist in collection", field |-> pth, collection |-> clctn]

\* part_001:18-26; parseSchema is given as the paths it resolved
NewUpdateBuilder(collection, flds, opts) ==
    [clctn |-> collection, flds |-> flds, opts |-> mergeUpdateOptions(opts)]

\* part_001:34-37: the components of the update document
NoSections == [ats |-> <<>>, set |-> <<>>, us |-> <<>>, err |-> NoErr]

\* the callback without the return at part_001:72
UpdateCallback_FallThrough(ub, uo, acc, pth, val) ==
    IF uo.strictValidation = <<TRUE>> /\ pth \notin ub.flds
    THEN [acc EXCEPT !.err = UpdateFieldError(pth, ub.clctn)]
    ELSE LET unset == IF isValueEmpty(val) /\ pth \in DOMAIN uo.unsetWhenEmpty
                         /\ uo.unsetWhenEmpty[pth]
                      THEN [acc EXCEPT !.us = Append(acc.us, BE(pth, GoString(<<>>)))]
                      ELSE acc
         IN  IF fieldIgnored(uo, pth) THEN unset
             ELSE IF pth \in DOMAIN uo.addToSet /\ uo.addToSet[pth]
             THEN [unset EXCEPT !.ats = Append(unset.ats, BE(pth, BD("$each", val)))]
             ELSE [unset EXCEPT !.set = Append(unset.set, BE(pth, val))]

\* part_001:54-100: the callback, on the components acc
UpdateCallback(ub, uo, acc, pth, val) ==
    IF uo.strictValidation = <<TRUE>> /\ pth \notin ub.flds
    THEN [acc EXCEPT !.err = UpdateFieldError(pth, ub.clctn)]
    ELSE IF isValueEmpty(val)
    THEN IF pth \in DOMAIN uo.unsetWhenEmpty /\ uo.unsetWhenEmpty[pth]
         THEN [acc EXCEPT !.us = Append(acc.us, BE(pth, GoString(<<>>)))]
         ELSE acc
    ELSE IF fieldIgnored(uo, pth) THEN acc
    ELSE IF pth \in DOMAIN uo.addToSet /\ uo.addToSet[pth]
    THEN [acc EXCEPT !.ats = Append(acc.ats, BE(pth, BD("$each", val)))]
    ELSE [acc EXCEPT !.set = Append(acc.set, BE(pth, val))]

\* part_006:52-54, part_001:100-102: the call on each field, up to the first error
RECURSIVE CallLoop(_, _, _, _, _)
CallLoop(ub, uo, fieldCalls, i, acc) ==
    IF i > Len(fieldCalls) \/ acc.err # NoErr THEN acc
    ELSE CallLoop(ub, uo, fieldCalls, i + 1,
                  UpdateCallback(ub, uo, acc, fieldCalls[i].pth, fieldCalls[i].val))

\* part_001:105-126: a component with entries becomes a section
Section(key, entries) ==
    IF Len(entries) > 0 THEN <<BE(key, [k |-> "D", v |-> entries])>> ELSE <<>>

\* part_001:32-129
Update(ub, doc, opts) ==
    LET uo == mergeUpdateOptions(<<ub.opts, mergeUpdateOptions(opts)>>)
        acc == CallLoop(ub, uo, forEachField(doc, <<>>), 1, NoSections)
    IN  IF doc.k \notin {"struct", "ptrstruct"}
        THEN [upd |-> <<>>, err |-> DocNotStruct]
        ELSE IF acc.err # NoErr
        THEN [upd |-> <<>>, err |-> acc.err]
        ELSE [upd |-> Section("$addToSet", acc.ats) \o Section("$set", acc.set)
                        \o Section("$unset", acc.us),
              err |-> NoErr]

\* no Update call is under way
NoUpdate ==
    [ub |-> NewUpdateBuilder("", {}, <<>>), doc |-> GoNilPtr, opts |-> <<>>,
     called |-> FALSE, upd |-> <<>>, err |-> NoErr]

(***************************************************************************)
(* The builder and the inputs of the calls.                                *)
(***************************************************************************)
iVal == <<"iVal">>
lVal == <<"lVal">>
deVal == <<"deVal">>
doVal == <<"doVal">>
dVal == <<"dVal">>
tVal == <<"tVal">>
sVal == <<"sVal">>
aVal == <<"aVal">>
oVal == <<"oVal">>
bVal == <<"bVal">>
idVal == <<"idVal">>
nofield == <<"nofield">>

\* the fieldTypes of the builder under test
FieldTypes ==
    (iVal :> "int") @@ (lVal :> "long") @@ (deVal :> "decimal") @@ (doVal :> "double")
    @@ (dVal :> "date") @@ (tVal :> "timestamp") @@ (sVal :> "string")
    @@ (aVal :> "array") @@ (oVal :> "object") @@ (bVal :> "bool")
    @@ (idVal :> "objectId")

\* the schema of the builder under test: the fields of FieldTypes, each with
\* its bsonType
FieldTypesSchema ==
    JObj("properties" :>
        JObj([name \in {f[1] : f \in DOMAIN FieldTypes} |->
                JObj("bsonType" :> JStr(FieldTypes[<<name>>]))]))

Encodings == {"bson.M", "map[string]any", "string", "[]byte"}
\* the text of an input that is not JSON
JInvalid == [k |-> "jinvalid", v |-> <<>>]

\* the Go value a caller passes for content c in encoding e; the lists of a
\* map[string]any are []string, those of a bson.M are bson.A
Encode(c, e) ==
    CASE e = "bson.M" -> GoOf(c, "bson.M", "bson.A")
      [] e = "map[string]any" -> GoOf(c, "map[string]any", "[]string")
      [] e = "string" -> GoString(IF c.k = "jinvalid" THEN NotJSON ELSE JSONText(c))
      [] OTHER -> GoBytes(IF c.k = "jinvalid" THEN NotJSON ELSE JSONText(c))

\* NewQueryBuilder (query.go:24-60): the builder, or a panic of the resolution
NewQueryBuilder(collection, schema, strictValidation) ==
    LET r == CASE schema.k = "map[string]any" -> parseMapSchema(schema)
               [] schema.k = "bson.M" -> parseBSONSchema(schema)
               [] schema.k = "[]byte" -> parseJSONSchema(schema.v)
               [] schema.k = "string" -> parseStringSchema(schema.v)
               [] OTHER -> Resolved(<<>>)
    IN  [panic |-> r.panic,
         qb |-> [collection |-> collection,
                 fieldTypes |-> r.ft,
                 strictValidation |->
                    IF Len(strictValidation) > 0 THEN strictValidation[1] ELSE FALSE]]

Seqs(S, lo, hi) == UNION {[1..n -> S] : n \in lo..hi}

NumChars == {"<", ">", "=", "!", "-", "5", ".", "null", Big}
DateChars == {"<", ">", "=", "!", "-", RFC3339Z, RFC3339Offset, DateDash, "null"}
StrChars == {"-", "!", "=", "*", "\"", "v", "null"}

NumFields == {iVal, lVal, deVal, doVal}
DateFields == {dVal, tVal}
StrFields == {sVal, aVal, oVal}

NumListTokens ==
    {<<"5">>, <<"<", "5">>, <<"<", "=", "3">>, <<">", "=", "5">>, <<"!", "=", "3">>,
     <<"-", "5">>, <<"<", "=", "<", "5">>}
DateListTokens ==
    {<<RFC3339Z>>, <<"<", DateDash>>, <<"<", "=", RFC3339Offset>>, <<">", "=", DateSlash>>,
     <<"!", "=", RFC3339Z>>, <<"-", DateDash>>}
StrListTokens ==
    {<<"v">>, <<"-", "v">>, <<"!", "=", "w">>, <<"v", "*">>, <<"null">>, <<"-">>}

\* tokens of one numeric or date field, of one string, array or object field
SingleTokens(f) ==
    CASE f \in NumFields -> Seqs(NumChars, 0, MaxNumTokLen)
      [] f \in DateFields -> Seqs(DateChars, 0, MaxNumTokLen)
      [] OTHER -> Seqs(StrChars, 0, MaxStrTokLen)
TokenLists(f) ==
    CASE f \in NumFields -> Seqs(NumListTokens, 0, MaxTokens)
      [] f \in DateFields -> Seqs(DateListTokens, 0, MaxTokens)
      [] OTHER -> Seqs(StrListTokens, 0, MaxTokens)

MultiFields == {iVal, deVal, dVal, oVal, idVal, nofield}
MultiLists(f) ==
    CASE f \in {iVal, deVal} ->
            {<<<<"5">>>>, <<<<">", "=", "3">>, <<"<", "5">>>>,
             <<<<"!", "=", "3">>, <<"5">>, <<">", "3">>>>}
      [] f = dVal ->
            {<<<<RFC3339Z>>>>, <<<<">", DateDash>>, <<"<", "=", RFC3339Z>>>>,
             <<<<DateSlash>>, <<"!", "=", RFC3339Offset>>>>}
      [] f = oVal -> {<<<<"v">>>>, <<<<"v">>, <<"-", "w">>>>}
      [] OTHER -> {<<<<"v">>>>}
AllMultiLists == UNION {MultiLists(f) : f \in MultiFields}

OperArgs == {<<>>, <<And>>, <<Not>>, <<Nor>>, <<Or>>, <<4>>}

(***************************************************************************)
(* The state machine: one Filter call on a builder.                        *)
(***************************************************************************)
Begin(b) ==
    /\ qb = b
    /\ qo = <<>>
    /\ o = <<>>
    /\ pc = "idle"
    /\ oper = And
    /\ filter = NilM
    /\ pending = {}
    /\ visited = <<>>
    /\ result = NilM
    /\ err = NoErr
    /\ schemaIn = [content |-> FieldTypesSchema, encoding |-> "bson.M"]
    /\ merge = NoMerge
    /\ fo = NoFind
    /\ calls = NoCalls
    /\ update = NoUpdate

Init ==
    \E sv \in {<<>>, <<TRUE>>, <<FALSE>>} : Begin(NewQueryBuilder("test", Encode(FieldTypesSchema, "bson.M"), sv).qb)

InitDefault == Begin(NewQueryBuilder("test", Encode(FieldTypesSchema, "bson.M"), <<>>).qb)

\* query.go:92-100: the call is made and the locals are set
FilterCall(raw, args) ==
    /\ qo' = raw
    /\ o' = args
    /\ filter' = EmptyM
    /\ oper' = OperOf(args)
    /\ pending' = DOMAIN raw
    /\ visited' = <<>>
    /\ pc' = "loop"
    /\ UNCHANGED <<qb, result, err, schemaIn, merge, fo, calls, update>>

\* a call with up to MaxFields fields
FilterMulti ==
    /\ pc = "idle"
    /\ \E F \in SUBSET MultiFields :
        /\ Cardinality(F) <= MaxFields
        /\ \E raw \in [F -> AllMultiLists] :
            /\ \A f \in F : raw[f] \in MultiLists(f)
            /\ \E args \in OperArgs : FilterCall(raw, args)

\* a call with one numeric or date field, with one token
FilterNumericToken ==
    /\ pc = "idle"
    /\ \E f \in NumFields \cup DateFields :
        \E t \in SingleTokens(f) : FilterCall(f :> <<t>>, <<>>)

\* a call with one numeric or date field, with a list of tokens
FilterNumericList ==
    /\ pc = "idle"
    /\ \E f \in NumFields \cup DateFields :
        \E l \in TokenLists(f) :
            \E args \in {<<>>, <<Or>>} : FilterCall(f :> l, args)

\* a call with one string, array or object field, with one token
FilterStringToken ==
    /\ pc = "idle"
    /\ \E f \in StrFields :
        \E t \in SingleTokens(f) : FilterCall(f :> <<t>>, <<>>)

\* a call with one string, array or object field, with a list of tokens
FilterStringList ==
    /\ pc = "idle"
    /\ \E f \in StrFields :
        \E l \in TokenLists(f) :
            \E args \in {<<>>, <<Or>>} : FilterCall(f :> l, args)

\* query.go:101-131: one iteration of the range loop; the map is visited in any order
FilterRange ==
    /\ pc = "loop"
    /\ \E field \in pending :
        LET bsonType == LookupType(qb, field)
        IN  /\ visited' = Append(visited, field)
            /\ IF StrictFails(qb, bsonType)
               THEN /\ pc' = "done"
                    /\ result' = NilM
                    /\ err' = FieldError(field, qb.collection)
                    /\ UNCHANGED <<filter, pending>>
               ELSE /\ filter' = FilterField(filter, field, qo[field], bsonType, oper)
                    /\ pending' = pending \ {field}
                    /\ UNCHANGED <<pc, result, err>>
    /\ UNCHANGED <<qb, qo, o, oper, schemaIn, merge, fo, calls, update>>

\* mutant of FilterReturn: the call switches the strict validation of the builder off
FilterReturn_Relax ==
    /\ pc = "loop"
    /\ pending = {}
    /\ pc' = "done"
    /\ result' = filter
    /\ err' = NoErr
    /\ qb' = [qb EXCEPT !.strictValidation = FALSE]
    /\ UNCHANGED <<qo, o, oper, filter, pending, visited, schemaIn, merge, fo, calls, update>>

\* query.go:134: the loop is over
FilterReturn ==
    /\ pc = "loop"
    /\ pending = {}
    /\ pc' = "done"
    /\ result' = filter
    /\ err' = NoErr
    /\ UNCHANGED <<qb, qo, o, oper, filter, pending, visited, schemaIn, merge, fo, calls, update>>

Next == FilterMulti \/ FilterRange \/ FilterReturn
Spec == Init /\ [][Next]_vars

NextNumeric == FilterNumericToken \/ FilterNumericList \/ FilterRange \/ FilterReturn
SpecNumeric == InitDefault /\ [][NextNumeric]_vars

NextString == FilterStringToken \/ FilterStringList \/ FilterRange \/ FilterReturn
SpecString == InitDefault /\ [][NextString]_vars

(***************************************************************************)
(* The state machine of the construction: NewQueryBuilder on a schema.     *)
(***************************************************************************)
Typed(t) == JObj("bsonType" :> JStr(t))

\* property entries with no sub-document
LeafEntries ==
    {Typed("string"),
     Typed("array"),
     JObj(("bsonType" :> JStr("array")) @@ ("items" :> Typed("int"))),
     JObj(("bsonType" :> JStr("array")) @@ ("items" :> Typed(""))),
     JObj("enum" :> JArr(<<JStr("x")>>)),
     JStr("x"),
     JObj("bsonType" :> JArr(<<JStr("string"), JStr("null")>>)),
     JObj("bsonType" :> JNull),
     JObj(("bsonType" :> JStr("object")) @@ ("properties" :> JStr("x"))),
     JObj(("bsonType" :> JStr("array")) @@ ("items" :> JArr(<<JStr("x")>>)))}

\* property entries with the sub-document P
NestedEntries(P) ==
    {JObj(("bsonType" :> JStr("object")) @@ ("properties" :> P)),
     JObj(("bsonType" :> JStr("string")) @@ ("properties" :> P)),
     JObj("properties" :> P),
     JObj(("bsonType" :> JStr("array")) @@ ("properties" :> P)),
     JObj(("bsonType" :> JStr("array"))
          @@ ("items" :> JObj(("bsonType" :> JStr("object")) @@ ("properties" :> P)))),
     JObj(("bsonType" :> JStr("array")) @@ ("items" :> JObj("properties" :> P)))}

\* the property lists with entry e: field a, alone or next to a string field b
PropertyLists(e) ==
    {JObj("a" :> e), JObj(("a" :> e) @@ ("b" :> Typed("string")))}

RECURSIVE Properties(_)
\* the property lists nested at most d deep
Properties(d) ==
    LET Entries == IF d = 0 THEN LeafEntries
                   ELSE LeafEntries
                        \cup UNION {NestedEntries(P) : P \in Properties(d - 1)}
    IN  UNION {PropertyLists(e) : e \in Entries}

\* the schemas with the property list P, with and without $jsonSchema
SchemaForms(P) ==
    {JObj("properties" :> P), JObj("$jsonSchema" :> JObj("properties" :> P))}

\* schemas without a property list, and a text that is no JSON
OddContents ==
    {JObj(<<>>), JObj("properties" :> JStr("x")), JObj("$jsonSchema" :> JStr("x")),
     JObj("$jsonSchema" :> JObj(<<>>)), JInvalid}

NoBuilder == [collection |-> "", fieldTypes |-> <<>>, strictValidation |-> FALSE]

\* the schema of the call: the content c in one of its encodings; a text
\* that is no JSON is a string or bytes
SchemaChosen(c) ==
    \E e \in Encodings :
        /\ c.k = "jinvalid" => e \in {"string", "[]byte"}
        /\ schemaIn = [content |-> c, encoding |-> e]

\* every schema with property lists nested at most MaxSchemaDepth deep
InitSchema ==
    /\ \/ \E c \in OddContents : SchemaChosen(c)
       \/ \E l \in LeafEntries :
            \E P \in PropertyLists(l) : \E c \in SchemaForms(P) : SchemaChosen(c)
       \/ \E Q \in Properties(MaxSchemaDepth - 1) :
            \E n \in NestedEntries(Q) :
                \E P \in PropertyLists(n) : \E c \in SchemaForms(P) : SchemaChosen(c)
    /\ merge = NoMerge
    /\ fo = NoFind
    /\ calls = NoCalls
    /\ update = NoUpdate
    /\ qb = NoBuilder
    /\ qo = <<>>
    /\ o = <<>>
    /\ pc = "new"
    /\ oper = And
    /\ filter = NilM
    /\ pending = {}
    /\ visited = <<>>
    /\ result = NilM
    /\ err = NoErr

\* query.go:24-60: the builder is made, or the resolution of the schema panics
Construct ==
    /\ pc = "new"
    /\ LET r == NewQueryBuilder("test", Encode(schemaIn.content, schemaIn.encoding), <<>>)
       IN  IF r.panic
           THEN /\ pc' = "panic"
                /\ UNCHANGED qb
           ELSE /\ pc' = "idle"
                /\ qb' = r.qb
    /\ UNCHANGED <<qo, o, oper, filter, pending, visited, result, err, schemaIn, merge, fo, calls, update>>

NextSchema == Construct
SpecSchema == InitSchema /\ [][NextSchema]_vars

(***************************************************************************)
(* The state machine of Filter on a builder with an object field that has  *)
(* a typed sub-field, and an enum-only field.                               *)
(***************************************************************************)
customEnum == <<"customEnum">>
oValSub == oVal \o <<".", "v">>

NestedSchema ==
    JObj("properties" :>
        JObj(("oVal" :> JObj(("bsonType" :> JStr("object"))
                             @@ ("properties" :> JObj("v" :> Typed("int")))))
             @@ ("customEnum" :> JObj("enum" :> JArr(<<JStr("A"), JStr("B")>>)))))

ObjectFields == {oVal, customEnum}
OverlapObjectTokens == {<<"v">>, <<"-", "v">>, <<"!", "=", "v">>, <<"w">>}
OverlapNumTokens == {<<">", "5">>, <<"5">>, <<"<", "=", "3">>, <<"null">>}

InitNested ==
    /\ qb = NewQueryBuilder("test", Encode(NestedSchema, "bson.M"), <<>>).qb
    /\ qo = <<>>
    /\ o = <<>>
    /\ pc = "idle"
    /\ oper = And
    /\ filter = NilM
    /\ pending = {}
    /\ visited = <<>>
    /\ result = NilM
    /\ err = NoErr
    /\ schemaIn = [content |-> NestedSchema, encoding |-> "bson.M"]
    /\ merge = NoMerge
    /\ fo = NoFind
    /\ calls = NoCalls
    /\ update = NoUpdate

\* a call with one object or enum-only field, with one token
FilterObjectToken ==
    /\ pc = "idle"
    /\ \E f \in ObjectFields :
        \E t \in SingleTokens(f) : FilterCall(f :> <<t>>, <<>>)

\* a call with one object or enum-only field, with a list of tokens
FilterObjectList ==
    /\ pc = "idle"
    /\ \E f \in ObjectFields :
        \E l \in TokenLists(f) : FilterCall(f :> l, <<>>)

\* a call with the object field and its typed sub-field
FilterOverlap ==
    /\ pc = "idle"
    /\ \E l \in Seqs(OverlapObjectTokens, 1, 2) :
        \E n \in Seqs(OverlapNumTokens, 1, 2) :
            FilterCall((oVal :> l) @@ (oValSub :> n), <<>>)

NextNested ==
    FilterObjectToken \/ FilterObjectList \/ FilterOverlap \/ FilterRange \/ FilterReturn
SpecNested == InitNested /\ [][NextNested]_vars

(***************************************************************************)
(* The state machine of a builder in use: Filter and FindOptions calls,    *)
(* one after the other.                                                    *)
(***************************************************************************)
plus == "+"
\* names of a projection or sort list
FindNames ==
    {<<>>, <<"-">>, <<plus>>, <<"iVal">>, <<"-", "sVal">>, <<"-", plus, "iVal">>,
     <<plus, "nofield">>}
FindPages ==
    {<<>>,
     ("limit" :> 10) @@ ("offset" :> 3) @@ ("skip" :> 5),
     ("size" :> 10) @@ ("page" :> 2),
     "page" :> 2}

\* query.go:141-156: a FindOptions call, from the call to the return or the panic
FindOptionsCall ==
    /\ pc = "idle"
    /\ \E page \in FindPages :
        \E fields \in Seqs(FindNames, 0, MaxFindFields) :
            \E sort \in Seqs(FindNames, 0, MaxFindFields - Len(fields)) :
                LET r == FindOptions(qb, [Page |-> page, Fields |-> fields, Sort |-> sort])
                IN  /\ fo' = [called |-> TRUE, Page |-> page, Fields |-> fields,
                              Sort |-> sort, nil |-> r.nil, err |-> r.err, opts |-> r.opts]
                    /\ pc' = IF r.panic THEN "panic" ELSE "done"
    /\ UNCHANGED <<qb, qo, o, oper, filter, pending, visited, result, err, schemaIn, merge, calls, update>>

\* the caller goes on to its next call on the builder
NextCall ==
    /\ pc = "done"
    /\ pc' = "idle"
    /\ qo' = <<>>
    /\ o' = <<>>
    /\ oper' = And
    /\ filter' = NilM
    /\ pending' = {}
    /\ visited' = <<>>
    /\ result' = NilM
    /\ err' = NoErr
    /\ fo' = NoFind
    /\ UNCHANGED <<qb, schemaIn, merge, calls, update>>

NextCalls == FilterMulti \/ FilterRange \/ FilterReturn \/ FindOptionsCall \/ NextCall
SpecCalls == Init /\ [][NextCalls]_vars

(***************************************************************************)
(* The state machine of concurrent Filter calls on one builder.  A         *)
(* goroutine reads the builder and its own query options, and writes the   *)
(* locals of its own call (query.go:92-135).                               *)
(***************************************************************************)
Goroutines == 1..MaxGoroutines

IdleCall ==
    [pc |-> "idle", qo |-> <<>>, o |-> <<>>, oper |-> And, filter |-> NilM,
     pending |-> {}, visited |-> <<>>, result |-> NilM, err |-> NoErr]

\* the raw filters of the concurrent calls
ConcurrentFilters ==
    {<<>>,
     iVal :> <<<<">", "=", "3">>, <<"<", "5">>>>,
     sVal :> <<<<"v">>>>,
     (iVal :> <<<<"!", "=", "3">>, <<"5">>>>) @@ (deVal :> <<<<">", "3">>, <<"<", "5">>>>),
     (nofield :> <<<<"v">>>>) @@ (oVal :> <<<<"v">>, <<"-", "w">>>>)}

InitConcurrent ==
    /\ \E sv \in {<<>>, <<TRUE>>} :
        qb = NewQueryBuilder("test", Encode(FieldTypesSchema, "bson.M"), sv).qb
    /\ qo = <<>>
    /\ o = <<>>
    /\ pc = "go"
    /\ oper = And
    /\ filter = NilM
    /\ pending = {}
    /\ visited = <<>>
    /\ result = NilM
    /\ err = NoErr
    /\ schemaIn = [content |-> FieldTypesSchema, encoding |-> "bson.M"]
    /\ merge = NoMerge
    /\ fo = NoFind
    /\ calls = [g \in Goroutines |-> IdleCall]
    /\ update = NoUpdate

Others == <<qb, qo, o, pc, oper, filter, pending, visited, result, err, schemaIn, merge, fo, update>>

\* query.go:92-100: goroutine g makes its call and sets its locals
GoFilterCall(g) ==
    /\ calls[g].pc = "idle"
    /\ \E raw \in ConcurrentFilters :
        \E args \in {<<>>, <<Or>>} :
            calls' = [calls EXCEPT ![g] =
                        [pc |-> "loop", qo |-> raw, o |-> args, oper |-> OperOf(args),
                         filter |-> EmptyM, pending |-> DOMAIN raw, visited |-> <<>>,
                         result |-> NilM, err |-> NoErr]]
    /\ UNCHANGED Others

\* mutant of GoFilterRange: the running filter is one document for all goroutines
GoFilterRange_Shared(g) ==
    /\ calls[g].pc = "loop"
    /\ \E field \in calls[g].pending :
        LET c == calls[g]
            bsonType == LookupType(qb, field)
        IN  calls' =
              IF StrictFails(qb, bsonType)
              THEN [calls EXCEPT ![g] =
                      [c EXCEPT !.visited = Append(c.visited, field), !.pc = "done",
                                !.result = NilM,
                                !.err = FieldError(field, qb.collection)]]
              ELSE [h \in Goroutines |->
                      IF h = g
                      THEN [c EXCEPT !.visited = Append(c.visited, field),
                                     !.filter = FilterField(c.filter, field, c.qo[field],
                                                            bsonType, c.oper),
                                     !.pending = c.pending \ {field}]
                      ELSE IF calls[h].pc = "loop"
                      THEN [calls[h] EXCEPT !.filter =
                                FilterField(calls[h].filter, field, c.qo[field],
                                            bsonType, c.oper)]
                      ELSE calls[h]]
    /\ UNCHANGED Others

\* query.go:101-131: one iteration of the range loop of goroutine g
GoFilterRange(g) ==
    /\ calls[g].pc = "loop"
    /\ \E field \in calls[g].pending :
        LET c == calls[g]
            bsonType == LookupType(qb, field)
        IN  calls' = [calls EXCEPT ![g] =
                        IF StrictFails(qb, bsonType)
                        THEN [c EXCEPT !.visited = Append(c.visited, field),
                                       !.pc = "done",
                                       !.result = NilM,
                                       !.err = FieldError(field, qb.collection)]
                        ELSE [c EXCEPT !.visited = Append(c.visited, field),
                                       !.filter = FilterField(c.filter, field, c.qo[field],
                                                              bsonType, c.oper),
                                       !.pending = c.pending \ {field}]]
    /\ UNCHANGED Others

\* query.go:134: the loop of goroutine g is over
GoFilterReturn(g) ==
    /\ calls[g].pc = "loop"
    /\ calls[g].pending = {}
    /\ calls' = [calls EXCEPT ![g] =
                    [calls[g] EXCEPT !.pc = "done", !.result = calls[g].filter,
                                     !.err = NoErr]]
    /\ UNCHANGED Others

NextConcurrent ==
    \E g \in Goroutines : GoFilterCall(g) \/ GoFilterRange(g) \/ GoFilterReturn(g)
SpecConcurrent == InitConcurrent /\ [][NextConcurrent]_vars

(***************************************************************************)
(* The state machine of combine on its own (part_012:614-644).             *)
(***************************************************************************)
MergeInt == BInt32(5)
\* the arrays of 1 to MaxElems elements
MergeArrays == {BA([i \in 1..n |-> BInt32(3)]) : n \in 1..MaxElems}
\* the documents nested under a key
MergeInner ==
    {EmptyM, One(<<"p">>, MergeInt), One(<<"p">>, BA(<<BInt32(3)>>)),
     One(<<"p">>, One(<<"q">>, MergeInt)), One(<<"p">>, One(<<"r">>, BNil))}
MergeValues == {MergeInt, BNil, BD("$gt", MergeInt)} \cup MergeArrays \cup MergeInner
MergeKeys == {<<"x">>, <<"y">>}
\* the documents of into and from
MergeDocs == UNION {{BM(m) : m \in [K -> MergeValues]} : K \in SUBSET MergeKeys}
\* the third document of a chain of merges
MergeThird ==
    {EmptyM, One(<<"z">>, MergeInt), One(<<"z">>, BA(<<BInt32(3)>>)),
     One(<<"x">>, One(<<"p">>, BNil))}

InitCombine ==
    /\ qb = NoBuilder
    /\ qo = <<>>
    /\ o = <<>>
    /\ pc = "merge"
    /\ oper = And
    /\ filter = NilM
    /\ pending = {}
    /\ visited = <<>>
    /\ result = NilM
    /\ err = NoErr
    /\ schemaIn = [content |-> FieldTypesSchema, encoding |-> "bson.M"]
    /\ fo = NoFind
    /\ calls = NoCalls
    /\ update = NoUpdate
    /\ \E a \in MergeDocs :
        \E b \in MergeDocs :
            \E c \in MergeThird : merge = [a |-> a, b |-> b, c |-> c, out |-> <<>>]

\* the merges of the arguments, each on its own copies of them
Combine ==
    /\ pc = "merge"
    /\ pc' = "merged"
    /\ merge' = [merge EXCEPT !.out =
                    [ab |-> combine(merge.a, merge.b),
                     ba |-> combine(merge.b, merge.a),
                     ab_c |-> combine(combine(merge.a, merge.b), merge.c),
                     a_bc |-> combine(merge.a, combine(merge.b, merge.c))]]
    /\ UNCHANGED <<qb, qo, o, oper, filter, pending, visited, result, err, schemaIn, fo, calls, update>>

NextCombine == Combine
SpecCombine == InitCombine /\ [][NextCombine]_vars

(***************************************************************************)
(* The state machine of an Update call: a builder, a document and the      *)
(* options of the call are chosen, then Update runs.                       *)
(***************************************************************************)
aPath == <<"a">>
bPath == <<"b">>
tPath == <<"t">>
nPath == <<"n">>
naPath == <<"n", ".", "a">>
nbPath == <<"n", ".", "b">>

\* the paths of the schema of the builder: t is not one of them
UpdateSchemaPaths == {aPath, bPath, naPath, nbPath}

\* struct fields a document is made of: empty and non-empty values of several
\* kinds, nested structs by value and by pointer, an unexported field
FieldPool ==
    {StructField(aPath, TRUE, GoString(<<>>)),
     StructField(aPath, TRUE, GoString(<<"x">>)),
     StructField(aPath, TRUE, GoBool(FALSE)),
     StructField(bPath, TRUE, GoNilSlice),
     StructField(bPath, TRUE, GoSlice(<<"x">>)),
     StructField(tPath, TRUE, GoTime(0)),
     StructField(nPath, TRUE, GoStruct(<<StructField(aPath, TRUE, GoInt(0)),
                                          StructField(bPath, TRUE, GoSlice(<<"x">>))>>)),
     StructField(nPath, TRUE,
                 GoPtrStruct(<<StructField(<<"c">>, FALSE, GoString(<<"x">>)),
                               StructField(aPath, TRUE, GoString(<<"x">>))>>))}

StructFields ==
    UNION {[1..n -> FieldPool] : n \in 0..MaxDocFields}

\* the documents handed to Update: structs, pointers to structs, and values
\* that are no struct
UpdateDocs ==
    {GoStruct(fields) : fields \in StructFields}
        \cup {GoPtrStruct(fields) : fields \in {f \in StructFields : Len(f) = 1}}
        \cup {GoString(<<"x">>), GoNilPtr}

\* the options one chain of setters builds for one path
PathOptions(fld) ==
    {[nil |-> FALSE, addToSet |-> ats, ignoreFields |-> ign,
      strictValidation |-> <<>>, unsetWhenEmpty |-> us] :
        ats \in {<<>>, fld :> TRUE, fld :> FALSE},
        ign \in {<<>>, <<fld>>},
        us \in {<<>>, fld :> TRUE, fld :> FALSE}}

\* the variadic options of an Update call
UpdateOptionLists ==
    {<<>>, <<NilOptions>>,
     <<SetStrictValidation(UpdateOptions, TRUE)>>,
     <<SetStrictValidation(UpdateOptions, FALSE)>>,
     <<SetIgnoreFields(UpdateOptions, <<aPath>>), SetUnsetWhenEmpty(UpdateOptions, aPath, TRUE)>>}
        \cup {<<opt>> : opt \in PathOptions(aPath) \cup PathOptions(bPath) \cup PathOptions(naPath)}

\* the default options of the builder
BuilderOptionLists ==
    {<<>>,
     <<SetStrictValidation(UpdateOptions, TRUE)>>,
     <<SetAddToSet(SetUnsetWhenEmpty(SetIgnoreFields(UpdateOptions, <<aPath>>),
                                     aPath, TRUE),
                   nbPath, TRUE)>>}

InitUpdate ==
    /\ qb = NoBuilder
    /\ qo = <<>>
    /\ o = <<>>
    /\ pc = "update"
    /\ oper = And
    /\ filter = NilM
    /\ pending = {}
    /\ visited = <<>>
    /\ result = NilM
    /\ err = NoErr
    /\ schemaIn = [content |-> FieldTypesSchema, encoding |-> "bson.M"]
    /\ merge = NoMerge
    /\ fo = NoFind
    /\ calls = NoCalls
    /\ \E opts \in BuilderOptionLists :
        \E doc \in UpdateDocs :
            \E callOpts \in UpdateOptionLists :
                update = [ub |-> NewUpdateBuilder("things", UpdateSchemaPaths, opts),
                          doc |-> doc, opts |-> callOpts,
                          called |-> FALSE, upd |-> <<>>, err |-> NoErr]

\* part_001:32-129: the call returns
UpdateCall ==
    /\ pc = "update"
    /\ pc' = "updated"
    /\ LET r == Update(update.ub, update.doc, update.opts)
       IN  update' = [update EXCEPT !.called = TRUE, !.upd = r.upd, !.err = r.err]
    /\ UNCHANGED <<qb, qo, o, oper, filter, pending, visited, result, err, schemaIn, merge, fo, calls>>

NextUpdate == UpdateCall
SpecUpdate == InitUpdate /\ [][NextUpdate]_vars

(***************************************************************************)
(* Vocabulary of the properties.                                           *)
(***************************************************************************)
Done == pc = "done"
TypeOf(f) == LookupType(qb, f)
IsNumeric(f) == TypeOf(f) \in {"int", "long", "decimal", "double"}
IsDate(f) == TypeOf(f) \in {"date", "timestamp"}
OnlyField(f) == DOMAIN qo = {f}
LogicalKeys == {<<"$and">>, <<"$or">>, <<"$nor">>, <<"$not">>}
ComparisonOps == {"$lt", "$lte", "$gt", "$gte", "$ne"}

\* the kind of value each type tag stands for
KindOf(type) ==
    CASE type = "int" -> "int32"
      [] type = "long" -> "int64"
      [] type = "decimal" -> "float32"
      [] type = "double" -> "float64"
      [] type \in {"date", "timestamp"} -> "time"
      [] OTHER -> "none"

\* the value of a remainder in the type of field f
TypedValue(f, s) ==
    IF IsDate(f) THEN BTime(parseUTCDate(s))
    ELSE NumericValue(s, TypeOf(f), BitSize(TypeOf(f)))

\* the tokens of a multi-token list, split by the tokenizer's verdict
TokOf(t) == detectComparisonOperator(t, FALSE)
Indices(toks) == [i \in 1..Len(toks) |-> i]
OpIdx(toks) == SelectSeq(Indices(toks), LAMBDA i : TokOf(toks[i]).oper # "")
BareIdx(toks) == SelectSeq(Indices(toks), LAMBDA i : TokOf(toks[i]).oper = "")
OpConds(f, toks) ==
    [j \in 1..Len(OpIdx(toks)) |->
        LET tok == TokOf(toks[OpIdx(toks)[j]])
        IN  Cond(f, tok.oper, TypedValue(f, tok.value))]
BareValues(f, toks) ==
    [j \in 1..Len(BareIdx(toks)) |-> TypedValue(f, TokOf(toks[BareIdx(toks)[j]]).value)]

\* the entries a field adds to the logical group (none when it produces no group)
GroupEntries(f, toks) ==
    IF (IsNumeric(f) \/ IsDate(f)) /\ Len(toks) >= 2 /\ OpIdx(toks) # <<>>
    THEN OpConds(f, toks)
         \o (IF BareIdx(toks) # <<>>
             THEN <<Cond(f, "$in", BA(BareValues(f, toks)))>>
             ELSE <<>>)
    ELSE <<>>

RECURSIVE GroupsInOrder(_)
\* the group entries of the fields of the call, in the given order of fields
GroupsInOrder(order) ==
    IF order = <<>> THEN <<>>
    ELSE GroupEntries(Head(order), qo[Head(order)]) \o GroupsInOrder(Tail(order))

GroupFields == {f \in DOMAIN qo : GroupEntries(f, qo[f]) # <<>>}

(***************************************************************************)
(* C1: with strict validation on, a filter with at least one field absent  *)
(* from the FieldTypeMap returns an error and a nil filter, whatever the   *)
(* other fields and the order of the visit; with strict validation off,    *)
(* Filter returns no error and the absent fields add nothing: the result   *)
(* is the result of the same call without them.                            *)
(***************************************************************************)
Absent(f) == f \notin DOMAIN qb.fieldTypes
Known == {f \in DOMAIN qo : ~Absent(f)}

C1_StrictGate ==
    Done =>
        /\ (qb.strictValidation /\ (\E f \in DOMAIN qo : Absent(f)))
              => /\ err.k = "error"
                 /\ Absent(err.field)
                 /\ result = NilM
        /\ ~qb.strictValidation
              => /\ err = NoErr
                 /\ result.k = "M"
                 /\ \A f \in DOMAIN qo : Absent(f) => f \notin DOMAIN result.v
                 /\ result = Filter(qb, [f \in Known |-> qo[f]], o,
                                    SelectSeq(visited, LAMBDA f : ~Absent(f))).filter

\* the absent field is visited last, after a known field has built a filter
C1_Witness ==
    /\ Done
    /\ qb.strictValidation
    /\ Len(visited) = 2
    /\ ~Absent(visited[1])
    /\ Absent(visited[2])
    /\ filter # EmptyM
    /\ result = NilM
    /\ err.k = "error"

(***************************************************************************)
(* C2: a numeric or date/timestamp field with two or more tokens gives     *)
(* {field: {$in: values}} when no token has an operator, and otherwise     *)
(* {logicalKey: L} with one {field: {op: value}} per operator token in     *)
(* token order, followed by exactly one {field: {$in: bare values}} if and *)
(* only if there is a bare token.                                          *)
(***************************************************************************)
C2_MultiToken ==
    \A f \in DOMAIN qo :
        (Done /\ OnlyField(f) /\ (IsNumeric(f) \/ IsDate(f)) /\ Len(qo[f]) >= 2) =>
            IF OpIdx(qo[f]) = <<>>
            THEN result = One(f, BD("$in", BA(BareValues(f, qo[f]))))
            ELSE /\ DOMAIN result.v = {LogicalOperatorString(oper)}
                 /\ LET L == result.v[LogicalOperatorString(oper)].v
                        n == Len(OpIdx(qo[f]))
                    IN  /\ SubSeq(L, 1, n) = OpConds(f, qo[f])
                        /\ IF BareIdx(qo[f]) # <<>>
                           THEN /\ Len(L) = n + 1
                                /\ L[n + 1] = Cond(f, "$in", BA(BareValues(f, qo[f])))
                           ELSE Len(L) = n

\* operator, bare, operator: the bare value moves behind both conditions
C2_Witness ==
    /\ Done
    /\ OnlyField(iVal)
    /\ qo[iVal] = <<<<"<", "5">>, <<"5">>, <<"!", "=", "3">>>>
    /\ result = One(<<"$and">>,
                    BA(<<Cond(iVal, "$lt", BInt32(5)), Cond(iVal, "$ne", BInt32(3)),
                         Cond(iVal, "$in", BA(<<BInt32(5)>>))>>))

(***************************************************************************)
(* C3: a numeric or date/timestamp field with exactly one token that is    *)
(* not a null token gives {field: value} when the token has no operator    *)
(* and {field: {op: value}}, op one of $lt $lte $gt $gte $ne, when it has  *)
(* one; the value has the kind of the field's tag (int: int32, long:       *)
(* int64, decimal: float32, double: float64, date/timestamp: a UTC time).  *)
(***************************************************************************)
C3_SingleToken ==
    \A f \in DOMAIN qo :
        (Done /\ OnlyField(f) /\ (IsNumeric(f) \/ IsDate(f)) /\ Len(qo[f]) = 1
              /\ ~reNullMatch(qo[f][1])) =>
            LET tok == detectComparisonOperator(qo[f][1], IsDate(f))
                val == TypedValue(f, tok.value)
            IN  /\ DOMAIN result.v = {f}
                /\ val.k = KindOf(TypeOf(f))
                /\ tok.oper \in ComparisonOps \cup {""}
                /\ tok.oper = "" => result.v[f] = val
                /\ tok.oper # "" => result.v[f] = BD(tok.oper, val)
                /\ IsDate(f) =>
                      val.v \in {"2020-01-01T12:00:00Z", "2021-02-16T00:00:00Z", ZeroTime}

C3_Witness ==
    /\ Done
    /\ OnlyField(iVal)
    /\ qo[iVal] = <<<<"<", "=", "5">>>>
    /\ result = One(iVal, BD("$lte", BInt32(5)))

(***************************************************************************)
(* C4: Filter called with Or, Nor or Not returns the document that the     *)
(* same call returns with And, with the key "$and" replaced by "$or",      *)
(* "$nor", "$not"; a filter without a group is the same for all of them.   *)
(***************************************************************************)
KeyOfOperator(lo) ==
    CASE lo = Not -> <<"$not">>
      [] lo = Nor -> <<"$nor">>
      [] lo = Or -> <<"$or">>
      [] OTHER -> <<"$and">>

RenameKey(m, from, to) ==
    IF m.k # "M" \/ from \notin DOMAIN m.v THEN m
    ELSE BM([key \in (DOMAIN m.v \ {from}) \cup {to} |->
                IF key = to THEN m.v[from] ELSE m.v[key]])

C4_OperatorOverride ==
    (Done /\ oper \in {Or, Nor, Not}) =>
        LET withAnd == Filter(qb, qo, <<And>>, visited)
        IN  /\ result = RenameKey(withAnd.filter, <<"$and">>, KeyOfOperator(oper))
            /\ err = withAnd.err
            /\ (withAnd.filter.k = "M" /\ <<"$and">> \notin DOMAIN withAnd.filter.v)
                  => result = withAnd.filter

\* a group under $nor next to a key that is no group
C4_Witness ==
    /\ Done
    /\ oper = Nor
    /\ result.k = "M"
    /\ <<"$nor">> \in DOMAIN result.v
    /\ Cardinality(DOMAIN result.v) = 2

RECURSIVE SumLen(_)
SumLen(F) ==
    IF F = {} THEN 0
    ELSE LET f == CHOOSE x \in F : TRUE
         IN  Len(GroupEntries(f, qo[f])) + SumLen(F \ {f})

Count(seq, e) == Cardinality({i \in 1..Len(seq) : seq[i] = e})

C6_OneGroup ==
    (Done /\ err = NoErr) =>
        /\ Cardinality(DOMAIN result.v \cap LogicalKeys) <= 1
        /\ (GroupFields # {} /\ oper \in {And, Not, Nor, Or})
              => LogicalOperatorString(oper) \in DOMAIN result.v
        /\ \A key \in DOMAIN result.v \cap LogicalKeys :
              /\ result.v[key].k = "A"
              /\ Len(result.v[key].v) = SumLen(GroupFields)
              /\ \A f \in GroupFields :
                    \A i \in 1..Len(GroupEntries(f, qo[f])) :
                        LET e == GroupEntries(f, qo[f])[i]
                        IN  Count(result.v[key].v, e) = Count(GroupsInOrder(visited), e)
              /\ \A i \in 1..Len(result.v[key].v) :
                    \E f \in GroupFields : result.v[key].v[i].v[1].Key = f

\* groups of three and of two entries in one array of five
C6_Witness ==
    /\ Done
    /\ err = NoErr
    /\ Cardinality(GroupFields) = 2
    /\ Cardinality(DOMAIN result.v \cap LogicalKeys) = 1
    /\ \E key \in DOMAIN result.v \cap LogicalKeys : Len(result.v[key].v) = 5

(***************************************************************************)
(* Vocabulary of the string forms.                                         *)
(***************************************************************************)
Quote == <<"\"">>
Star == <<"*">>
Quoted(s) == Len(s) >= 2 /\ HasPrefix(s, Quote) /\ HasSuffix(s, Quote)
NotEqual(f, v) == One(f, BD("$ne", BStr(v)))
Exact(f, v) == One(f, BRegex(<<"^">> \o v \o <<"$">>, ""))
Contains(f, v) == One(f, BRegex(v, "i"))
BeginsWith(f, v) == One(f, BRegex(<<"^">> \o v, "i"))
EndsWith(f, v) == One(f, BRegex(v \o <<"$">>, "i"))
Literal(f, v) == One(f, BStr(v))

\* the only token of the string field sVal, when the call has just that
OneStringToken == Done /\ OnlyField(sVal) /\ Len(qo[sVal]) = 1

\* every fragment the listed forms allow for token t, under any reading of
\* which form a token that fits several of them belongs to
ListedForms(f, t) ==
    (IF HasPrefix(t, <<"!", "=">>) THEN {NotEqual(f, DropFirst(t, 2))} ELSE {})
    \cup (IF HasPrefix(t, <<"-">>) THEN {NotEqual(f, DropFirst(t, 1))} ELSE {})
    \cup (IF Quoted(t) THEN {Exact(f, DropLast(DropFirst(t, 1), 1))} ELSE {})
    \cup (IF Len(t) >= 2 /\ HasPrefix(t, Star) /\ HasSuffix(t, Star)
          THEN {Contains(f, DropLast(DropFirst(t, 1), 1))} ELSE {})
    \cup (IF HasSuffix(t, Star) THEN {BeginsWith(f, DropLast(t, 1))} ELSE {})
    \cup (IF HasPrefix(t, Star) THEN {EndsWith(f, DropFirst(t, 1))} ELSE {})

(***************************************************************************)
(* C7 as stated: a string field with one token t gives {$ne: v} for `!=v`  *)
(* and `-v`, the regex ^v$ without options for a quoted v, the regex v, ^v *)
(* or v$ with option i for `*v*`, `v*` and `*v`, and literal equality      *)
(* {field: t} for any other token, v being the token without the named     *)
(* prefix and suffix characters.  The code does not do this for every      *)
(* token.                                                                  *)
(***************************************************************************)
C7_AsStated ==
    OneStringToken =>
        LET t == qo[sVal][1]
        IN  IF ListedForms(sVal, t) # {}
            THEN result \in ListedForms(sVal, t)
            ELSE result = Literal(sVal, t)

\* v carries a marker of its own that the code reads after the outer one
Marked(v) == StrLen(v) > 2 /\ (HasPrefix(v, <<"!", "=">>) \/ Quoted(v))

(***************************************************************************)
(* C7: a string field with one token t that has no word character adds no  *)
(* fragment.  A token t with a word character and without `null` gives     *)
(* exactly one of: {$ne: v} for t = `-v` or `!=v` with v not ending in     *)
(* `*`; the regex ^v$ without options for t = `"v"`; the regex v, ^v or v$ *)
(* with option i for t = `*v*`, `v*` or `*v` with v not itself of the form *)
(* `!=w` or `"w"`; literal equality {field: t} for a token of none of these *)
(* shapes.  v is t without the named prefix and suffix characters.         *)
(***************************************************************************)
C7_StringForms ==
    OneStringToken =>
        LET t == qo[sVal][1]
            long == StrLen(t) > 1
            inner == DropLast(DropFirst(t, 1), 1)
        IN  IF ~reWordMatch(t) THEN result = EmptyM
            ELSE ~reNullMatch(t) =>
                CASE long /\ HasPrefix(t, <<"-">>) ->
                        ~HasSuffix(t, Star) => result = NotEqual(sVal, DropFirst(t, 1))
                  [] HasPrefix(t, <<"!", "=">>) ->
                        ~HasSuffix(t, Star) => result = NotEqual(sVal, DropFirst(t, 2))
                  [] Quoted(t) -> result = Exact(sVal, inner)
                  [] long /\ HasPrefix(t, Star) /\ HasSuffix(t, Star) ->
                        ~Marked(inner) => result = Contains(sVal, inner)
                  [] long /\ HasSuffix(t, Star) ->
                        ~Marked(DropLast(t, 1)) => result = BeginsWith(sVal, DropLast(t, 1))
                  [] long /\ HasPrefix(t, Star) ->
                        ~Marked(DropFirst(t, 1)) => result = EndsWith(sVal, DropFirst(t, 1))
                  [] OTHER -> result = Literal(sVal, t)

\* the token "v" in quotes has been compiled to the case-sensitive exact match
C7_Witness ==
    /\ OneStringToken
    /\ qo[sVal][1] = <<"\"", "v", "\"">>
    /\ result = Exact(sVal, <<"v">>)

(***************************************************************************)
(* C8: a string field with two or more tokens gives {field: {$in: tokens}} *)
(* and an array field gives {field: tokens} without $in; the list holds    *)
(* the raw tokens as they are, in input order, and the result has no       *)
(* logical group, whatever logical operator is supplied.                   *)
(***************************************************************************)
RawTokens(toks) == [i \in 1..Len(toks) |-> BStr(toks[i])]

C8_StringList ==
    \A f \in DOMAIN qo :
        (Done /\ OnlyField(f) /\ TypeOf(f) \in {"string", "array"} /\ Len(qo[f]) >= 2) =>
            /\ TypeOf(f) = "string" => result = One(f, BD("$in", BA(RawTokens(qo[f]))))
            /\ TypeOf(f) = "array" => result = One(f, BA(RawTokens(qo[f])))
            /\ DOMAIN result.v \cap LogicalKeys = {}

\* an array field with prefixed and null tokens, called with Or
C8_Witness ==
    /\ Done
    /\ OnlyField(aVal)
    /\ o = <<Or>>
    /\ qo[aVal] = <<<<"-", "v">>, <<"null">>, <<"v", "*">>>>
    /\ result = One(aVal, BA(<<BStr(<<"-", "v">>), BStr(<<"null">>), BStr(<<"v", "*">>)>>))

(***************************************************************************)
(* Vocabulary of the object form.                                          *)
(***************************************************************************)
ObjectTokens == Done /\ OnlyField(oVal) /\ Len(qo[oVal]) >= 1
Exists(b) == BD("$exists", BBool(b))
SubKey(f, sub) == f \o <<".">> \o sub

(***************************************************************************)
(* C9 as stated: an object field gives one key field.sub per token, sub    *)
(* being the token without its leading `-` or `!=`, with {$exists: false}  *)
(* when the token had such a prefix and {$exists: true} otherwise, at the  *)
(* top level.  The code does not do this for every token list.             *)
(***************************************************************************)
StatedPrefix(t) ==
    IF HasPrefix(t, <<"-">>) THEN 1
    ELSE IF HasPrefix(t, <<"!", "=">>) THEN 2
    ELSE 0

C9_AsStated ==
    ObjectTokens =>
        LET toks == qo[oVal]
            key(i) == SubKey(oVal, DropFirst(toks[i], StatedPrefix(toks[i])))
        IN  /\ result.k = "M"
            /\ DOMAIN result.v = {key(i) : i \in 1..Len(toks)}
            /\ \A i \in 1..Len(toks) :
                  result.v[key(i)] = Exists(StatedPrefix(toks[i]) = 0)

\* the prefix of a token that names a sub-field after it
NamedPrefix(t) ==
    IF StrLen(t) >= 2 /\ HasPrefix(t, <<"-">>) THEN 1
    ELSE IF StrLen(t) >= 3 /\ HasPrefix(t, <<"!", "=">>) THEN 2
    ELSE 0

(***************************************************************************)
(* C9: an object field with a non-empty token list gives the keys          *)
(* field.sub, one per sub-field named.  sub is the token without its       *)
(* leading `-` or `!=` when something follows that prefix (one prefix is   *)
(* removed; a token that is only `-` or `!=` names itself).  The key maps  *)
(* to {$exists: false} when a prefix was removed and to {$exists: true}    *)
(* otherwise; when several tokens name the same sub-field, the condition   *)
(* of the last of them stands.  The keys are at the top level, never under *)
(* a logical-operator key.                                                 *)
(***************************************************************************)
C9_ObjectExists ==
    ObjectTokens =>
        LET toks == qo[oVal]
            key(i) == SubKey(oVal, DropFirst(toks[i], NamedPrefix(toks[i])))
            last(i) == CHOOSE j \in 1..Len(toks) :
                          /\ key(j) = key(i)
                          /\ \A n \in 1..Len(toks) : key(n) = key(i) => n <= j
        IN  /\ result.k = "M"
            /\ DOMAIN result.v = {key(i) : i \in 1..Len(toks)}
            /\ \A i \in 1..Len(toks) :
                  result.v[key(i)] = Exists(NamedPrefix(toks[last(i)]) = 0)
            /\ DOMAIN result.v \cap LogicalKeys = {}

\* two tokens name the sub-field v; the second one, with its prefix, stands
C9_Witness ==
    /\ ObjectTokens
    /\ qo[oVal] = <<<<"v">>, <<"!", "=", "w">>, <<"-", "v">>>>
    /\ result = BM((SubKey(oVal, <<"v">>) :> Exists(FALSE))
                   @@ (SubKey(oVal, <<"w">>) :> Exists(FALSE)))

(***************************************************************************)
(* Vocabulary of the null forms.                                           *)
(***************************************************************************)
NullLiteral == <<"null">>
\* the token without its operator prefix, the longer prefixes first
Remainder(t) ==
    IF \E p \in {<<"<", "=">>, <<">", "=">>, <<"!", "=">>} : HasPrefix(t, p)
    THEN DropFirst(t, 2)
    ELSE IF \E p \in {<<"<">>, <<">">>, <<"-">>} : HasPrefix(t, p)
    THEN DropFirst(t, 1)
    ELSE t
\* the condition of field f compares with null
IsNullForm(r, f) ==
    /\ r.k = "M"
    /\ DOMAIN r.v = {f}
    /\ \/ r.v[f] = BNil
       \/ r.v[f].k = "D" /\ r.v[f].v[1].Value = BNil

(***************************************************************************)
(* C10: a numeric or date/timestamp field with exactly one token gives     *)
(* {field: null} for the token `null` and {field: {$ne: null}} for the     *)
(* tokens `-null` and `!=null`; the condition compares with null exactly   *)
(* when the remainder after the prefix equals `null`, so a token whose     *)
(* remainder only contains `null` is compiled as an ordinary value.        *)
(***************************************************************************)
C10_NullExact ==
    \A f \in DOMAIN qo :
        (Done /\ OnlyField(f) /\ (IsNumeric(f) \/ IsDate(f)) /\ Len(qo[f]) = 1) =>
            LET t == qo[f][1]
            IN  /\ t = NullLiteral => result = One(f, BNil)
                /\ t \in {<<"-">> \o NullLiteral, <<"!", "=">> \o NullLiteral}
                      => result = One(f, BD("$ne", BNil))
                /\ IsNullForm(result, f) <=> Remainder(t) = NullLiteral

(***************************************************************************)
(* C11: a string field with exactly one token compares with null, as       *)
(* {field: null} or {field: {$ne: null}}, only when the token without its  *)
(* not-equal prefix (`!=` or `-`) is exactly `null`; a token that only     *)
(* contains `null`, such as `nullable`, keeps its text and is compiled by  *)
(* the not-equal, pattern and literal rules.                               *)
(***************************************************************************)
C11_StringNullExact ==
    OneStringToken =>
        LET t == qo[sVal][1]
        IN  IsNullForm(result, sVal)
                => t \in {NullLiteral, <<"-">> \o NullLiteral, <<"!", "=">> \o NullLiteral}

(***************************************************************************)
(* Vocabulary of the operator prefixes.                                    *)
(***************************************************************************)
\* the operator named by the longest prefix at the front of token t, and the
\* token without that one prefix
PrefixTok(t) ==
    CASE HasPrefix(t, <<"<", "=">>) -> [oper |-> "$lte", value |-> DropFirst(t, 2)]
      [] HasPrefix(t, <<">", "=">>) -> [oper |-> "$gte", value |-> DropFirst(t, 2)]
      [] HasPrefix(t, <<"!", "=">>) -> [oper |-> "$ne", value |-> DropFirst(t, 2)]
      [] HasPrefix(t, <<"<">>) -> [oper |-> "$lt", value |-> DropFirst(t, 1)]
      [] HasPrefix(t, <<">">>) -> [oper |-> "$gt", value |-> DropFirst(t, 1)]
      [] OTHER -> [oper |-> "", value |-> t]

\* the fragment of field f when every token is read by Tok, which gives the
\* operator and the value of one token
ReadOpIdx(Tok(_), toks) == SelectSeq(Indices(toks), LAMBDA i : Tok(toks[i]).oper # "")
ReadBareIdx(Tok(_), toks) == SelectSeq(Indices(toks), LAMBDA i : Tok(toks[i]).oper = "")
ReadConds(Tok(_), Val(_, _), f, toks) ==
    [j \in 1..Len(ReadOpIdx(Tok, toks)) |->
        LET tok == Tok(toks[ReadOpIdx(Tok, toks)[j]])
        IN  Cond(f, tok.oper, Val(f, tok.value))]
ReadBare(Tok(_), Val(_, _), f, toks) ==
    [j \in 1..Len(ReadBareIdx(Tok, toks)) |->
        Val(f, Tok(toks[ReadBareIdx(Tok, toks)[j]]).value)]
\* the same with Val giving the typed value of a remainder
ReadFragmentWith(Tok(_), Val(_, _), f, toks, lo) ==
    IF Len(toks) = 1
    THEN LET tok == Tok(toks[1])
         IN  IF tok.oper = "" THEN One(f, Val(f, tok.value))
             ELSE One(f, BD(tok.oper, Val(f, tok.value)))
    ELSE IF ReadOpIdx(Tok, toks) = <<>>
    THEN One(f, BD("$in", BA(ReadBare(Tok, Val, f, toks))))
    ELSE One(KeyOfOperator(lo),
             BA(ReadConds(Tok, Val, f, toks)
                \o (IF ReadBareIdx(Tok, toks) # <<>>
                    THEN <<Cond(f, "$in", BA(ReadBare(Tok, Val, f, toks)))>>
                    ELSE <<>>)))
ReadFragment(Tok(_), f, toks, lo) == ReadFragmentWith(Tok, TypedValue, f, toks, lo)

PrefixFragment(f, toks, lo) == ReadFragment(PrefixTok, f, toks, lo)

\* the tokens whose reading depends on null or on the `-` shorthand
NullOrDash(f, t) == reNullMatch(t) \/ (IsDate(f) /\ \E i \in 1..Len(t) : t[i] = "-")

(***************************************************************************)
(* C12: every token of a numeric or date field has the operator named by   *)
(* the longest recognized prefix at its very front (`<=` $lte, `>=` $gte,  *)
(* `!=` $ne, `<` $lt, `>` $gt, none: no operator) and the value is the     *)
(* token without exactly that prefix: a token that begins with `<=` is     *)
(* never $lt, one that begins with `>=` never $gt, and what follows the    *)
(* first prefix is never read as a second operator.  Tokens with null or   *)
(* with the `-` shorthand of dates are left to their own properties.       *)
(***************************************************************************)
C12_LongestPrefix ==
    \A f \in DOMAIN qo :
        (/\ Done /\ OnlyField(f) /\ (IsNumeric(f) \/ IsDate(f)) /\ Len(qo[f]) >= 1
         /\ \A i \in 1..Len(qo[f]) : ~NullOrDash(f, qo[f][i]))
            => result = PrefixFragment(f, qo[f], oper)

(***************************************************************************)
(* Vocabulary of the `-` shorthand.                                        *)
(***************************************************************************)
Dashed(t) == StrLen(t) >= 2 /\ HasPrefix(t, <<"-">>)
\* the reading in which a leading `-` is the not-equal operator
DashTok(t) ==
    IF Dashed(t) THEN [oper |-> "$ne", value |-> DropFirst(t, 1)] ELSE PrefixTok(t)
\* the tokens that the code's tokenizer reads as PrefixTok does, `-` apart
Regular(t) == Dashed(t) \/ detectComparisonOperator(t, FALSE) = PrefixTok(t)
\* a call on one numeric or date/timestamp field with a token that starts with
\* `-`, without null, and without a token of another irregular shape
DashCall(f) ==
    /\ Done /\ OnlyField(f) /\ (IsNumeric(f) \/ IsDate(f)) /\ Len(qo[f]) >= 1
    /\ \E i \in 1..Len(qo[f]) : Dashed(qo[f][i])
    /\ \A i \in 1..Len(qo[f]) : ~reNullMatch(qo[f][i]) /\ Regular(qo[f][i])

ParsesAs(f, s) ==
    CASE TypeOf(f) \in {"int", "long"} -> ParseInt(s, BitSize(TypeOf(f))).ok
      [] TypeOf(f) \in {"decimal", "double"} -> ParseFloat(s, BitSize(TypeOf(f))).ok
      [] OTHER -> parseUTCDate(s) # ZeroTime
ZeroValue(f) ==
    CASE TypeOf(f) = "int" -> BInt32(0)
      [] TypeOf(f) = "long" -> BInt64(ZeroInt)
      [] TypeOf(f) = "decimal" -> BFloat32(ZeroFloat)
      [] TypeOf(f) = "double" -> BFloat64(ZeroFloat)
      [] OTHER -> BTime(ZeroTime)
\* the value of a remainder when every failure gives the zero value
ValueOrZero(f, s) == IF ParsesAs(f, s) THEN TypedValue(f, s) ELSE ZeroValue(f)

(***************************************************************************)
(* C14: for every token of a numeric or date field whose remainder does    *)
(* not parse in the type of the field, by its syntax or by its range (an   *)
(* int above 2147483647), Filter returns no error and the condition has    *)
(* the zero value of the type: 0, or the zero time.                        *)
(***************************************************************************)
C14_ZeroOnFailure ==
    \A f \in DOMAIN qo :
        (/\ Done /\ OnlyField(f) /\ (IsNumeric(f) \/ IsDate(f)) /\ Len(qo[f]) >= 1
         /\ \A i \in 1..Len(qo[f]) : ~reNullMatch(qo[f][i]))
            => /\ err = NoErr
               /\ result = ReadFragmentWith(
                              LAMBDA t : detectComparisonOperator(
                                             t, IsDate(f) /\ Len(qo[f]) = 1),
                              ValueOrZero, f, qo[f], oper)
(***************************************************************************)
(* Schema resolution.                                                      *)
(***************************************************************************)
Has(e, key) == e.k = "jobject" /\ key \in DOMAIN e.v

\* the bsonType a property entry declares, "" when it declares none
DeclaredType(e) ==
    IF Has(e, "bsonType") /\ e.v["bsonType"].k = "jstring" THEN e.v["bsonType"].v ELSE ""

\* the nested properties an entry declares, none when it declares none
SubDocument(e) ==
    IF Has(e, "properties") /\ e.v["properties"].k = "jobject"
    THEN e.v["properties"] ELSE JObj(<<>>)

\* the items of an array entry
ItemsOf(e) ==
    IF DeclaredType(e) = "array" /\ Has(e, "items") THEN e.v["items"] ELSE JObj(<<>>)

\* the TypeTag of an entry: the type of the items of an array that declares
\* one, the declared type otherwise
TypeTag(e) ==
    IF DeclaredType(ItemsOf(e)) # "" THEN DeclaredType(ItemsOf(e)) ELSE DeclaredType(e)

\* the property list at the top of a schema
TopProperties(c) ==
    SubDocument(IF Has(c, "$jsonSchema") THEN c.v["$jsonSchema"] ELSE c)

RECURSIVE EntriesAt(_, _)
\* the property entries of list P and of the lists nested in them, each with
\* its path
EntriesAt(prefix, P) ==
    UNION {{[path |-> prefix \o <<n>>, entry |-> P.v[n]]}
           \cup EntriesAt(prefix \o <<n, ".">>, SubDocument(P.v[n]))
           \cup EntriesAt(prefix \o <<n, ".">>, SubDocument(ItemsOf(P.v[n])))
           : n \in DOMAIN P.v}

Recorded(path, tag) == path \in DOMAIN qb.fieldTypes /\ qb.fieldTypes[path] = tag

\* the builder of the state was made from the schema of the state
Constructed == pc = "idle" /\ schemaIn.content # JInvalid

\* C15: for every property entry at any depth that declares nested
\* properties, each typed sub-property is recorded under
\* prefix+name+"."+subname, whether the entry's bsonType is object, another
\* value, or not declared
C15_NestedProperties ==
    Constructed =>
        \A pe \in EntriesAt(<<>>, TopProperties(schemaIn.content)) :
            \A n \in DOMAIN SubDocument(pe.entry).v :
                LET sub == SubDocument(pe.entry).v[n]
                IN  TypeTag(sub) # "" => Recorded(pe.path \o <<".", n>>, TypeTag(sub))

RECURSIVE VisitedAt(_, _)
\* the property entries the resolver is handed, each with its path: those of
\* list P, and those of the properties of every entry that declares a
\* bsonType (of its items, for an array with items)
VisitedAt(prefix, P) ==
    UNION {{[path |-> prefix \o <<n>>, entry |-> P.v[n]]}
           \cup (IF Has(P.v[n], "bsonType")
                 THEN VisitedAt(prefix \o <<n, ".">>,
                                SubDocument(IF DeclaredType(P.v[n]) = "array"
                                               /\ Has(P.v[n], "items")
                                            THEN P.v[n].v["items"] ELSE P.v[n]))
                 ELSE {})
           : n \in DOMAIN P.v}

\* C16: for a property whose bsonType is array, the TypeTag of the path is
\* the bsonType of the items when they declare a non-empty one and array
\* otherwise, and every typed property declared under items is recorded
\* under path+"."+name
C16_ArrayItems ==
    Constructed =>
        \A pe \in VisitedAt(<<>>, TopProperties(schemaIn.content)) :
            DeclaredType(pe.entry) = "array" =>
                /\ Recorded(pe.path,
                            IF DeclaredType(ItemsOf(pe.entry)) # ""
                            THEN DeclaredType(ItemsOf(pe.entry)) ELSE "array")
                /\ \A n \in DOMAIN SubDocument(ItemsOf(pe.entry)).v :
                        LET sub == SubDocument(ItemsOf(pe.entry)).v[n]
                        IN  TypeTag(sub) # ""
                                => Recorded(pe.path \o <<".", n>>, TypeTag(sub))

\* an array of objects with the fields a and b: a -> object, a.a and a.b ->
\* their types
C16_Witness ==
    /\ Constructed
    /\ Has(TopProperties(schemaIn.content), "a")
    /\ DeclaredType(TopProperties(schemaIn.content).v["a"]) = "array"
    /\ DOMAIN SubDocument(ItemsOf(TopProperties(schemaIn.content).v["a"])).v = {"a", "b"}
    /\ Recorded(<<"a">>, "object")
    /\ Recorded(<<"a", ".", "a">>, "array")
    /\ Recorded(<<"a", ".", "b">>, "string")

\* NewQueryBuilder has returned or has panicked on the schema of the state
Resolving == pc \in {"idle", "panic"}

\* C17: for every schema input, also one in which $jsonSchema, properties,
\* items or bsonType hold a value of an unexpected shape, the resolution
\* completes without raising, and the map omits only the offending branch: a
\* well-formed property next to it is recorded
C17_NeverRaises ==
    Resolving =>
        /\ pc # "panic"
        /\ Has(TopProperties(schemaIn.content), "b") => Recorded(<<"b">>, "string")

\* C18: the same schema content resolves to the same FieldTypeMap in every
\* encoding (bson.M, map[string]any, JSON string, JSON bytes), and a second
\* resolution yields a map equal to the first
C18_EncodingIndependent ==
    Resolving /\ schemaIn.content # JInvalid =>
        \A e \in Encodings :
            LET r == NewQueryBuilder("test", Encode(schemaIn.content, e), <<>>)
            IN  /\ r.panic = (pc = "panic")
                /\ ~r.panic => r.qb.fieldTypes = qb.fieldTypes

(***************************************************************************)
(* The shape of the returned document.                                     *)
(***************************************************************************)
ComparisonKeys == {"$in", "$exists", "$ne", "$lt", "$lte", "$gt", "$gte"}

\* key is a field of the raw filter, or field.sub for one of them
IsFieldPath(key) ==
    \E f \in DOMAIN qo :
        \/ key = f
        \/ Len(key) >= Len(f) + 1 /\ SubSeq(key, 1, Len(f) + 1) = f \o <<".">>

\* the keys of the value of a field path are operator keys
ValueKeysListed(v) ==
    v.k = "D" => \A i \in 1..Len(v.v) : v.v[i].Key \in ComparisonKeys

\* an entry of a logical group is a condition on a field path
EntryKeysListed(e) ==
    /\ e.k = "D"
    /\ \A i \in 1..Len(e.v) : IsFieldPath(e.v[i].Key) /\ ValueKeysListed(e.v[i].Value)

\* C19: in every document Filter returns, every key that is not a field
\* path is one of the listed operator keys, and the key of a logical group
\* is one of $and, $or, $nor, $not for every LogicalOperator a caller passes
C19_OperatorKeys ==
    pc = "done" /\ err = NoErr =>
        \A key \in DOMAIN result.v :
            IF IsFieldPath(key) THEN ValueKeysListed(result.v[key])
            ELSE /\ key \in LogicalKeys
                 /\ result.v[key].k = "A"
                 /\ \A i \in 1..Len(result.v[key].v) : EntryKeysListed(result.v[key].v[i])

\* the orders in which a range loop can visit the set S
VisitOrders(S) ==
    {order \in Seqs(S, Cardinality(S), Cardinality(S)) :
        \A i, j \in 1..Len(order) : order[i] = order[j] => i = j}

\* C20: Filter is deterministic: the document a call returns is the document
\* of every call with the same builder, raw filter and logical operator,
\* whatever order the fields of the raw filter are visited in, the order of
\* the entries of the logical group included
C20_Deterministic ==
    pc = "done" =>
        \A order \in VisitOrders(DOMAIN qo) : Filter(qb, qo, o, order).filter = result

(***************************************************************************)
(* combine.                                                                *)
(***************************************************************************)
Merged == pc = "merged"
KeysOf(d) == DOMAIN d.v

RECURSIVE MergeOf(_, _, _)
\* m is the merge of into and from, by the rule of the merge for every key
MergeOf(m, into, from) ==
    /\ m.k = "M"
    /\ KeysOf(m) = KeysOf(into) \cup KeysOf(from)
    /\ \A key \in KeysOf(into) \ KeysOf(from) : m.v[key] = into.v[key]
    /\ \A key \in KeysOf(from) \ KeysOf(into) : m.v[key] = from.v[key]
    /\ \A key \in KeysOf(from) \cap KeysOf(into) :
        IF into.v[key].k = "M" /\ from.v[key].k = "M"
        THEN MergeOf(m.v[key], into.v[key], from.v[key])
        ELSE IF into.v[key].k = "A" /\ from.v[key].k = "A"
        THEN /\ m.v[key].k = "A"
             /\ m.v[key].v = into.v[key].v \o from.v[key].v
        ELSE m.v[key] = from.v[key]

Disjoint(x, y) == KeysOf(x) \cap KeysOf(y) = {}
PairwiseDisjoint ==
    Disjoint(merge.a, merge.b) /\ Disjoint(merge.a, merge.c) /\ Disjoint(merge.b, merge.c)

\* C27: for documents a, b, c whose key sets are pairwise disjoint,
\* merge(a, b) = merge(b, a) and merge(merge(a, b), c) = merge(a, merge(b, c))
C27_DisjointMerge ==
    Merged /\ PairwiseDisjoint =>
        /\ merge.out.ab = merge.out.ba
        /\ merge.out.ab_c = merge.out.a_bc

\* three documents with a key each
C27_Witness ==
    /\ Merged
    /\ PairwiseDisjoint
    /\ KeysOf(merge.a) # {} /\ KeysOf(merge.b) # {} /\ KeysOf(merge.c) # {}
    /\ KeysOf(merge.out.ab_c) = {<<"x">>, <<"y">>, <<"z">>}

(***************************************************************************)
(* Fragments of several fields under one key.                              *)
(***************************************************************************)
\* the fragment of field f of the call
FragmentOf(f) == FilterField(EmptyM, f, qo[f], TypeOf(f), oper)

\* condition c is one of the conditions of document d
HasCondition(d, c) == d.k = "D" /\ \E j \in 1..Len(d.v) : d.v[j] = c

\* C26: when the fragments of two fields of one call carry a condition
\* document under the same key, the merge keeps the conditions of both under
\* that key: no condition of a field is dropped by the fold
C26_KeepsConditions ==
    Done /\ err = NoErr =>
        \A f, g \in DOMAIN qo :
            f # g /\ FragmentOf(f).k = "M" /\ FragmentOf(g).k = "M" =>
                \A key \in DOMAIN FragmentOf(f).v \cap DOMAIN FragmentOf(g).v :
                    FragmentOf(f).v[key].k = "D" /\ FragmentOf(g).v[key].k = "D" =>
                        \A i \in 1..Len(FragmentOf(f).v[key].v) :
                            HasCondition(result.v[key], FragmentOf(f).v[key].v[i])

(***************************************************************************)
(* Fields tagged object, an enum-only property included.                   *)
(***************************************************************************)
\* a call with one field has returned: the object field or the enum-only field
ObjectCall(f) == Done /\ OnlyField(f) /\ f \in ObjectFields

NamedSub(t) == DropFirst(t, NamedPrefix(t))

SupportedTags ==
    {"array", "object", "string", "bool", "date", "timestamp",
     "decimal", "double", "int", "long"}

\* field f is in the FieldTypeMap with a tag that is not supported
Unsupported(f) == f \in DOMAIN qb.fieldTypes /\ qb.fieldTypes[f] \notin SupportedTags
IsSupported(f) == ~Unsupported(f)

\* C29: a filter field whose type is in the FieldTypeMap but is not one of
\* the ten supported tags contributes no fragment and raises no error, with
\* strict validation on and off: an error names a field missing from the
\* map, and the document returned is that of the call without such fields
C29_UnsupportedIgnored ==
    Done =>
        /\ err.k = "error" => err.field \notin DOMAIN qb.fieldTypes
        /\ err = NoErr =>
            result = Filter(qb, [f \in {g \in DOMAIN qo : IsSupported(g)} |-> qo[f]], o,
                            SelectSeq(visited, IsSupported)).filter

\* strict validation on, an objectId field next to a field that contributes
C29_Witness ==
    /\ Done
    /\ qb.strictValidation
    /\ err = NoErr
    /\ DOMAIN qo = {idVal, iVal}
    /\ DOMAIN result.v # {}
    /\ \A key \in DOMAIN result.v : key # idVal

(***************************************************************************)
(* FindOptions.                                                            *)
(***************************************************************************)
\* a name without its `-` and, after that, without its `+`
Stripped(name) ==
    LET f1 == IF HasPrefix(name, <<"-">>) THEN DropFirst(name, 1) ELSE name
    IN  IF HasPrefix(f1, <<plus>>) THEN DropFirst(f1, 1) ELSE f1

\* the names of the projection and sort lists of the call
FindNamesOf(call) ==
    {call.Fields[i] : i \in 1..Len(call.Fields)} \cup {call.Sort[i] : i \in 1..Len(call.Sort)}

\* C23: FindOptions fails only under strict validation: with strict
\* validation off it returns options and no error for every Page, Fields
\* and Sort input, empty names and names that are only `-` or `+` included,
\* and never aborts; with strict validation on it returns an error and nil
\* options exactly when a projection or sort name, without its `-`/`+`
\* prefix, is absent from the FieldTypeMap
C23_FindOptionsErrors ==
    fo.called =>
        /\ pc # "panic"
        /\ ~qb.strictValidation => fo.err = NoErr /\ ~fo.nil
        /\ qb.strictValidation =>
            /\ fo.nil <=> fo.err # NoErr
            /\ fo.err # NoErr <=>
                \E name \in FindNamesOf(fo) : Stripped(name) \notin DOMAIN qb.fieldTypes

(***************************************************************************)
(* The builder after its construction.                                     *)
(***************************************************************************)
\* C22: after NewQueryBuilder has returned, no step of a Filter or
\* FindOptions call, of one that succeeds or of one that fails, changes the
\* FieldTypeMap, the strict validation flag or the collection name of the
\* builder, and no step of Filter changes the raw filter map of the caller
C22_BuilderFrozen ==
    [][/\ pc \in {"idle", "loop", "done"} => qb' = qb
       /\ pc = "loop" => qo' = qo]_vars

\* a failed FindOptions call on a strict builder, the builder as constructed
C22_Witness ==
    /\ pc = "done"
    /\ fo.called
    /\ fo.err # NoErr
    /\ qb = NewQueryBuilder("test", Encode(FieldTypesSchema, "bson.M"), <<TRUE>>).qb

(***************************************************************************)
(* Concurrent calls.                                                       *)
(***************************************************************************)
\* what the call of goroutine g returns when it runs alone and visits its
\* fields in the same order
Alone(g) == Filter(qb, calls[g].qo, calls[g].o, calls[g].visited)

\* C21: for every interleaving of concurrent Filter calls on one builder,
\* each call returns the document it returns when run alone; no call reads
\* or writes the result document of another call, and no call writes shared
\* state
C21_ConcurrentCalls ==
    /\ [](\A g \in DOMAIN calls :
            calls[g].pc = "done" =>
                /\ calls[g].result = Alone(g).filter
                /\ calls[g].err = Alone(g).err)
    /\ [][/\ qb' = qb
          /\ \E g \in DOMAIN calls : \A h \in DOMAIN calls \ {g} : calls'[h] = calls[h]]_vars

\* two calls that ran interleaved and returned different documents
C21_Witness ==
    /\ pc = "go"
    /\ \A g \in Goroutines : calls[g].pc = "done" /\ calls[g].err = NoErr
    /\ Len(calls[1].visited) = 2
    /\ calls[2].qo = iVal :> <<<<">", "=", "3">>, <<"<", "5">>>>
    /\ calls[1].result # calls[2].result
    /\ DOMAIN calls[1].result.v # {}

(***************************************************************************)
(* The update document.                                                    *)
(***************************************************************************)
\* the options in force: the builder's defaults, then those of the call
OptionsGiven == <<update.ub.opts>> \o update.opts

\* the paths listed in an ignore-fields option
IgnoredPaths ==
    UNION {{OptionsGiven[i].ignoreFields[j] : j \in 1..Len(OptionsGiven[i].ignoreFields)} :
              i \in 1..Len(OptionsGiven)}

\* the entries of the section of the returned document with that key
EntriesOf(key) ==
    IF \E i \in 1..Len(update.upd) : update.upd[i].Key = key
    THEN (CHOOSE e \in {update.upd[i] : i \in 1..Len(update.upd)} : e.Key = key).Value.v
    ELSE <<>>

EntryPaths(key) == {EntriesOf(key)[i].Key : i \in 1..Len(EntriesOf(key))}
Returned == update.called /\ update.err = NoErr

\* C24: for every document and every combination of update options, a path
\* listed in the ignore-fields option appears in none of the $set, $addToSet
\* and $unset sections of the document Update returns, also when the same
\* path is configured for add-to-set or unset-when-empty
C24_IgnoredNowhere ==
    Returned =>
        \A pth \in IgnoredPaths :
            /\ pth \notin EntryPaths("$set")
            /\ pth \notin EntryPaths("$addToSet")
            /\ pth \notin EntryPaths("$unset")

\* the options Update works with
OptionsInForce == mergeUpdateOptions(OptionsGiven)
UnsetWhenEmpty(pth) ==
    pth \in DOMAIN OptionsInForce.unsetWhenEmpty /\ OptionsInForce.unsetWhenEmpty[pth]

\* the struct fields Update visits, in order, each with its path and value
FieldsVisited == forEachField(update.doc, <<>>)

\* how many elements of the sequence there are of that kind
CountOf(s, Is(_)) == Cardinality({i \in 1..Len(s) : Is(s[i])})

\* the entry a visited field with a value makes in $set, and in $addToSet
SetEntry(c) == BE(c.pth, c.val)
EachEntry(c) == BE(c.pth, BD("$each", c.val))
SectionKeys == <<"$addToSet", "$set", "$unset">>
RankOf(key) == CHOOSE r \in 1..3 : SectionKeys[r] = key

\* C30: in every update document Update returns without error, each visited
\* struct field contributes at most one entry, to exactly one of $addToSet,
\* $set or $unset: an empty value goes to $unset exactly when
\* unset-when-empty is set for its path and is left out otherwise, a value
\* that is not empty makes at most one entry in $addToSet or $set; the
\* sections come in the order $addToSet, $set, $unset and a section without
\* entries is omitted
C30_OneEntryPerField ==
    Returned =>
        LET ats == EntriesOf("$addToSet")
            set == EntriesOf("$set")
            us == EntriesOf("$unset")
            emptied == SelectSeq(FieldsVisited,
                                 LAMBDA c : isValueEmpty(c.val) /\ UnsetWhenEmpty(c.pth))
            valued == SelectSeq(FieldsVisited, LAMBDA c : ~isValueEmpty(c.val))
        IN  /\ us = [i \in 1..Len(emptied) |-> BE(emptied[i].pth, GoString(<<>>))]
            /\ \A i \in 1..Len(set) : \E j \in 1..Len(valued) : set[i] = SetEntry(valued[j])
            /\ \A i \in 1..Len(ats) : \E j \in 1..Len(valued) : ats[i] = EachEntry(valued[j])
            /\ \A j \in 1..Len(valued) :
                CountOf(set, LAMBDA e : e = SetEntry(valued[j]))
                    + CountOf(ats, LAMBDA e : e = EachEntry(valued[j]))
                    <= CountOf(valued, LAMBDA c : c = valued[j])
            /\ \A i \in 1..Len(update.upd) :
                /\ update.upd[i].Key \in {"$addToSet", "$set", "$unset"}
                /\ Len(update.upd[i].Value.v) > 0
                /\ \A j \in 1..Len(update.upd) :
                    i < j => RankOf(update.upd[i].Key) < RankOf(update.upd[j].Key)

\* a document with an empty field to unset, a slice to add to a set and a
\* value to set: three sections, one entry each
C30_Witness ==
    /\ Returned
    /\ Len(FieldsVisited) = 3
    /\ Len(update.upd) = 3
    /\ \A i \in 1..3 : Len(update.upd[i].Value.v) = 1
    /\ EntriesOf("$unset") = <<BE(naPath, GoString(<<>>))>>

====
